---- MODULE Spec2Model ----
(***************************************************************************)
(* Model of the Flux Replicate MCP server: the generate_image tool call    *)
(* (src/src/index.ts), the Replicate client with its retry wrapper         *)
(* (src/src/replicate-client.ts), the Sharp image processor                *)
(* (src/src/image-processor.ts) and the temporary file manager             *)
(* (src/unnamed/part_005, temp-manager.ts).                                *)
(*                                                                         *)
(* Conventions.  A JavaScript string that is only compared is a TLA+       *)
(* string.  A message text is a sequence of tokens: a token is either one  *)
(* character or a literal chunk of program text; the texts that the retry  *)
(* wrapper searches hold their digits as one-character tokens, so that     *)
(* String.prototype.includes('400') is a search for the contiguous tokens  *)
(* "4","0","0".  An optional argument is a record with a type tag t        *)
(* ("undef", "str", "num").                                                *)
(***************************************************************************)
EXTENDS Integers, Sequences, FiniteSets, TLC

VARIABLES
    args,             \* the arguments of the generate_image call
    upstream,         \* the upstream provider: its answer to the 1st, 2nd, ... call
    calls,            \* number of client.run calls made so far
    pc,               \* the position of the tool-call handler
    attempt,          \* generateImageWithRetry: the loop counter
    lastError,        \* generateImageWithRetry: lastError ([set, msg])
    result,           \* the ImageGenerationResult handed back to the handler
    imageBuffer,      \* the downloaded bytes
    tempPath,         \* handleImageGeneration: tempPath
    tempFiles,        \* TempManager.tempFiles (the keys of the map)
    tempSeq,          \* number of temporary names handed out so far
    dirs,             \* directories that exist on disk
    files,            \* files that exist on disk
    processingResult, \* handleImageGeneration: processingResult
    thrown,           \* the error in flight ([raised, msg])
    response,         \* what the tool-call handler returned
    log,              \* the request's external effects, in order: <<op, n>>
    sent,             \* the inputs handed to client.run, in order
    call,             \* a function applied on its own: its name and arguments
    ret,              \* and what it returned
    cm,               \* ConfigManager: its config, the config file, the calls made
    gc,               \* config.ts: the environment, globalConfig, the last getConfig()
    srv,              \* the server process: start-up, signals, shutdown, exit
    requests,         \* two tool calls in flight, each also run on its own
    worlds            \* the disk and the TempManager each of those runs works on

vars == <<args, upstream, calls, pc, attempt, lastError, result, imageBuffer, tempPath,
          tempFiles, tempSeq, dirs, files, processingResult, thrown, response, log,
          sent, call, ret, cm, gc, srv, requests, worlds>>

\* the variables of the parts of the program outside the tool-call handler
restVars == <<cm, gc, srv, requests, worlds>>

----------------------------------------------------------------------------
(* Bounds of the model *)

\* length of the scripted upstream behaviour in the retry scenarios
ScriptLen == 4

----------------------------------------------------------------------------
(* Program constants *)

\* generateImageWithRetry(params, maxRetries = 3, baseDelay = 1000)
DefaultMaxRetries == 3
DefaultBaseDelay == 1000
\* validateParams: prompt.length > 1000
MaxPromptLength == 1000
\* DEFAULT_CONFIG
DefaultQuality == 80
DefaultModel == "flux-pro"
DefaultAspectRatio == "1:1"
DefaultOutputFormat == "jpg"
TempDir == "/tmp/flux-replicate-mcp/temp"

\* FLUX_MODELS and ASPECT_RATIOS of replicate-client.ts (the keys)
FLUX_MODELS == {"flux-pro", "flux-schnell"}
ASPECT_RATIOS == {"1:1", "16:9", "9:16", "4:3", "3:4", "21:9", "9:21"}
SupportedFormats == {"jpg", "jpeg", "png", "webp"}

----------------------------------------------------------------------------
(* JavaScript values *)

Undef == [t |-> "undef", v |-> ""]
Str(s) == [t |-> "str", v |-> s]
NumUndef == [t |-> "undef", n |-> 0]
Num(n) == [t |-> "num", n |-> n]

\* a prompt text: lead blanks, core characters (no blank at either end), trail blanks
PromptUndef == [t |-> "undef", lead |-> 0, core |-> 0, trail |-> 0]
PromptNum == [t |-> "num", lead |-> 0, core |-> 2, trail |-> 0]
PromptStr(l, c, r) == [t |-> "str", lead |-> l, core |-> c, trail |-> r]

PathUndef == [t |-> "undef", dir |-> "", base |-> "", ext |-> ""]
Path(d, b, e) == [t |-> "str", dir |-> d, base |-> b, ext |-> e]

\* x = default in a destructuring pattern: the default replaces undefined only
OrDefault(x, d) == IF x.t = "undef" THEN d ELSE x

\* truthiness of a number-or-undefined argument
TruthyNum(x) == x.t = "num" /\ x.n # 0

\* prompt.length and prompt.trim().length
PromptLength(p) == p.lead + p.core + p.trail
TrimmedLength(p) == p.core

\* truthiness of the prompt argument: a non-empty string or a non-zero number
TruthyPrompt(p) == \/ p.t = "str" /\ PromptLength(p) > 0
                   \/ p.t = "num"

\* truthiness of the output_path argument
TruthyPath(p) == \/ p.t = "str" /\ <<p.dir, p.base, p.ext>> # <<"", "", "">>
                 \/ p.t = "num"

----------------------------------------------------------------------------
(* Messages *)

NoError == [raised |-> FALSE, msg |-> <<>>]
Raise(msg) == [raised |-> TRUE, msg |-> msg]

\* String.prototype.includes on token sequences
Includes(s, p) ==
    \E i \in 0..(Len(s) - Len(p)) : \A j \in 1..Len(p) : s[i + j] = p[j]

\* x || fallback for a message text: the empty string is falsy
OrMessage(msg, fallback) == IF msg = <<>> THEN fallback ELSE msg

----------------------------------------------------------------------------
(* The upstream provider (client.run): one scripted answer per call *)

UpArray(urls) == [kind |-> "array", urls |-> urls, msg |-> <<>>]
UpString(url) == [kind |-> "string", urls |-> <<url>>, msg |-> <<>>]
UpObject == [kind |-> "object", urls |-> <<>>, msg |-> <<>>]
UpReject(msg) == [kind |-> "error", urls |-> <<>>, msg |-> msg]

E500 == UpReject(<<"5", "0", "0", " Internal Server Error">>)
E400 == UpReject(<<"Request failed with status ", "4", "0", "0">>)
E401 == UpReject(<<"4", "0", "1", " Unauthorized">>)
E403 == UpReject(<<"4", "0", "3", " Forbidden">>)
EEmpty == UpReject(<<>>)
Ok2 == UpArray(<<"u1", "u2">>)
Ok1 == UpString("u1")
OkNone == UpArray(<<>>)

UpstreamOutcomes == {Ok2, Ok1, OkNone, UpObject, E500, EEmpty, E400, E401, E403}

----------------------------------------------------------------------------
(* ReplicateClient (replicate-client.ts) *)

\* validateParams with the prompt-length check left out
ValidateParams_NoLength(prompt, model, aspect_ratio) ==
    (IF ~TruthyPrompt(prompt) \/ TrimmedLength(prompt) = 0
        THEN <<"Prompt is required and cannot be empty">> ELSE <<>>)
    \o (IF model \notin FLUX_MODELS THEN <<"Invalid model">> ELSE <<>>)
    \o (IF aspect_ratio \notin ASPECT_RATIOS THEN <<"Invalid aspect ratio">> ELSE <<>>)

\* validateParams: the list of errors; num_outputs, guidance_scale,
\* num_inference_steps and seed are undefined in the handler's call
ValidateParams(prompt, model, aspect_ratio) ==
    (IF ~TruthyPrompt(prompt) \/ TrimmedLength(prompt) = 0
        THEN <<"Prompt is required and cannot be empty">> ELSE <<>>)
    \o (IF TruthyPrompt(prompt) /\ PromptLength(prompt) > MaxPromptLength
        THEN <<"Prompt is too long (maximum 1000 characters)">> ELSE <<>>)
    \o (IF model \notin FLUX_MODELS THEN <<"Invalid model">> ELSE <<>>)
    \o (IF aspect_ratio \notin ASPECT_RATIOS THEN <<"Invalid aspect ratio">> ELSE <<>>)

\* client-error test with 403 forgotten
IsClientError_No403(msg) ==
    Includes(msg, <<"4", "0", "0">>) \/ Includes(msg, <<"4", "0", "1">>)

\* error.includes('400') || error.includes('401') || error.includes('403')
IsClientError(msg) ==
    \/ Includes(msg, <<"4", "0", "0">>)
    \/ Includes(msg, <<"4", "0", "1">>)
    \/ Includes(msg, <<"4", "0", "3">>)

\* generateImage reaches client.run only past its model and aspect-ratio checks
CallsUpstream(model, aspect_ratio) ==
    model \in FLUX_MODELS /\ aspect_ratio \in ASPECT_RATIOS

GenFailure(threw, msg) ==
    [threw |-> threw, success |-> FALSE, imageUrls |-> <<>>, error |-> msg]

\* generateImage: the result for upstream answer o (threw: the promise rejects)
GenerateImage(model, aspect_ratio, o) ==
    IF model \notin FLUX_MODELS
    THEN \* the catch block reads FLUX_MODELS[params.model].name
         GenFailure(TRUE, <<"Cannot read properties of undefined">>)
    ELSE IF aspect_ratio \notin ASPECT_RATIOS
    THEN GenFailure(FALSE, <<"Unsupported aspect ratio">>)
    ELSE IF o.kind \in {"array", "string"}
    THEN [threw |-> FALSE, success |-> TRUE, imageUrls |-> o.urls, error |-> <<>>]
    ELSE IF o.kind = "error"
    THEN GenFailure(FALSE, o.msg)
    ELSE GenFailure(FALSE, <<"Unexpected prediction result format">>)

\* guidance_scale: params.guidance_scale || 3.5, counted in tenths
DefaultGuidanceScaleTenths == 35
\* num_inference_steps: params.num_inference_steps || 28
DefaultInferenceSteps == 28

\* generateImage: the input handed to client.run; the handler passes prompt,
\* model and aspect_ratio only, so the other parameters take their defaults
\* and no seed is sent
GenerateImageInput(prompt, model, aspect_ratio) ==
    [prompt |-> prompt, model |-> model, aspect_ratio |-> aspect_ratio,
     num_outputs |-> Num(1),
     guidance_scale |-> Num(DefaultGuidanceScaleTenths),
     num_inference_steps |-> Num(DefaultInferenceSteps)]

\* the for loop's condition, one attempt too many
LoopContinues_OneMore(a, maxRetries) == a <= maxRetries + 1

\* the for loop's condition, one attempt too few
LoopContinues_OneLess(a, maxRetries) == a < maxRetries

\* for (let attempt = 1; attempt <= maxRetries; attempt++)
LoopContinues(a, maxRetries) == a <= maxRetries

\* if (attempt < maxRetries): wait before retrying
WaitsBeforeRetry(a, maxRetries) == a < maxRetries

RECURSIVE Pow2(_)
Pow2(n) == IF n <= 0 THEN 1 ELSE 2 * Pow2(n - 1)

\* backoff computed from the attempt number instead of attempt - 1
BackoffDelay_FromAttempt(baseDelay, a) == baseDelay * Pow2(a)

\* baseDelay * Math.pow(2, attempt - 1)
BackoffDelay(baseDelay, a) == baseDelay * Pow2(a - 1)

\* lastError kept from the first failure
NextLastError_KeepFirst(old, msg) ==
    IF old.set THEN old ELSE [set |-> TRUE, msg |-> msg]

\* lastError = new Error(...): every failed attempt overwrites it
NextLastError(old, msg) == [set |-> TRUE, msg |-> msg]

\* throw lastError || new Error('All retry attempts failed')
FinalError(le) == IF le.set THEN le.msg ELSE <<"All retry attempts failed">>

----------------------------------------------------------------------------
(* ImageProcessor (image-processor.ts) and the handler's helpers *)

NoBuffer == [present |-> FALSE, decodable |-> FALSE, width |-> 0, height |-> 0]
Image(w, h) == [present |-> TRUE, decodable |-> TRUE, width |-> w, height |-> h]
Garbage == [present |-> TRUE, decodable |-> FALSE, width |-> 0, height |-> 0]

\* String.prototype.toLowerCase on the extensions the model uses
ToLowerCase(ext) ==
    CASE ext = ".PNG" -> ".png"
      [] ext = ".JPG" -> ".jpg"
      [] OTHER -> ext

\* determineFormatFromPath (index.ts) and the extension switch of
\* determineOutputFormat (image-processor.ts)
DetermineFormatFromPath(path) ==
    LET ext == ToLowerCase(path.ext) IN
    CASE ext \in {".jpg", ".jpeg"} -> "jpg"
      [] ext = ".png" -> "png"
      [] ext = ".webp" -> "webp"
      [] OTHER -> DefaultOutputFormat

\* determineOutputFormat: an explicit format wins over the extension
DetermineOutputFormat(path, explicitFormat) ==
    IF explicitFormat # "" THEN explicitFormat ELSE DetermineFormatFromPath(path)

\* needsProcessing: final_width || final_height || output_format !== ... || quality !== ...
NeedsProcessing(final_width, final_height, output_format, output_path, quality) ==
    \/ TruthyNum(final_width)
    \/ TruthyNum(final_height)
    \/ output_format # DetermineFormatFromPath(output_path)
    \/ quality # DefaultQuality

\* if (final_width || final_height) processingOptions.resize = {...}
HasResize(final_width, final_height) ==
    TruthyNum(final_width) \/ TruthyNum(final_height)

\* validateProcessingOptions with the lower quality bound off by one
ValidateProcessingOptions_ZeroAllowed(output_format, quality, hasResize, width, height) ==
    (IF quality < 0 \/ quality > 100
        THEN <<"Quality must be between 1 and 100">> ELSE <<>>)
    \o (IF hasResize /\ width.t = "num" /\ width.n <= 0
        THEN <<"Resize width must be greater than 0">> ELSE <<>>)
    \o (IF hasResize /\ height.t = "num" /\ height.n <= 0
        THEN <<"Resize height must be greater than 0">> ELSE <<>>)
    \o (IF hasResize /\ ~TruthyNum(width) /\ ~TruthyNum(height)
        THEN <<"At least one of width or height must be specified for resize">>
        ELSE <<>>)
    \o (IF output_format # "" /\ output_format \notin SupportedFormats
        THEN <<"Output format must be one of: jpg, jpeg, png, webp">> ELSE <<>>)

\* validateProcessingOptions; the output path is a non-empty string here
ValidateProcessingOptions(output_format, quality, hasResize, width, height) ==
    (IF quality < 1 \/ quality > 100
        THEN <<"Quality must be between 1 and 100">> ELSE <<>>)
    \o (IF hasResize /\ width.t = "num" /\ width.n <= 0
        THEN <<"Resize width must be greater than 0">> ELSE <<>>)
    \o (IF hasResize /\ height.t = "num" /\ height.n <= 0
        THEN <<"Resize height must be greater than 0">> ELSE <<>>)
    \o (IF hasResize /\ ~TruthyNum(width) /\ ~TruthyNum(height)
        THEN <<"At least one of width or height must be specified for resize">>
        ELSE <<>>)
    \o (IF output_format # "" /\ output_format \notin SupportedFormats
        THEN <<"Output format must be one of: jpg, jpeg, png, webp">> ELSE <<>>)

\* Math.round(a / b) for a >= 0, b > 0
RoundDiv(a, b) == (2 * a + b) \div (2 * b)

\* compressionLevel: Math.round((100 - quality) / 10)
PngCompressionLevel(quality) == RoundDiv(100 - quality, 10)

\* applyFormatOptions: the encoder options are accepted (Sharp takes a PNG
\* compressionLevel of 0..9 only; an unknown format throws)
FormatOptionsAccepted(format, quality) ==
    CASE format \in {"jpg", "jpeg", "webp"} -> TRUE
      [] format = "png" -> PngCompressionLevel(quality) \in 0..9
      [] OTHER -> FALSE

\* applyResize with fit 'contain': both sides given -> the target box
\* (letterboxed); one side given -> the other follows the aspect ratio
SharpResize(w, h, width, height) ==
    IF TruthyNum(width) /\ TruthyNum(height) THEN <<width.n, height.n>>
    ELSE IF TruthyNum(width) THEN <<width.n, RoundDiv(width.n * h, w)>>
    ELSE IF TruthyNum(height) THEN <<RoundDiv(height.n * w, h), height.n>>
    ELSE <<w, h>>

\* calculateOptimalDimensions with the two cover branches taken for each other
CalculateOptimalDimensions_CoverAsContain(originalWidth, originalHeight, targetWidth, targetHeight, fit) ==
    IF targetWidth = 0 /\ targetHeight = 0 THEN <<originalWidth, originalHeight>>
    ELSE IF targetWidth # 0 /\ targetHeight # 0 /\ fit = "fill"
    THEN <<targetWidth, targetHeight>>
    ELSE IF targetWidth # 0 /\ targetHeight # 0 /\ fit \in {"contain", "cover"}
    THEN IF originalWidth * targetHeight > targetWidth * originalHeight
         THEN <<targetWidth, RoundDiv(targetWidth * originalHeight, originalWidth)>>
         ELSE <<RoundDiv(targetHeight * originalWidth, originalHeight), targetHeight>>
    ELSE IF targetWidth # 0
    THEN <<targetWidth, RoundDiv(targetWidth * originalHeight, originalWidth)>>
    ELSE <<RoundDiv(targetHeight * originalWidth, originalHeight), targetHeight>>

\* calculateOptimalDimensions with the two contain branches taken for each other
CalculateOptimalDimensions_ContainAsCover(originalWidth, originalHeight, targetWidth, targetHeight, fit) ==
    IF targetWidth = 0 /\ targetHeight = 0 THEN <<originalWidth, originalHeight>>
    ELSE IF targetWidth # 0 /\ targetHeight # 0 /\ fit = "fill"
    THEN <<targetWidth, targetHeight>>
    ELSE IF targetWidth # 0 /\ targetHeight # 0 /\ fit \in {"contain", "cover"}
    THEN IF originalWidth * targetHeight > targetWidth * originalHeight
         THEN <<RoundDiv(targetHeight * originalWidth, originalHeight), targetHeight>>
         ELSE <<targetWidth, RoundDiv(targetWidth * originalHeight, originalWidth)>>
    ELSE IF targetWidth # 0
    THEN <<targetWidth, RoundDiv(targetWidth * originalHeight, originalWidth)>>
    ELSE <<RoundDiv(targetHeight * originalWidth, originalHeight), targetHeight>>

\* calculateOptimalDimensions: <<width, height>>; a target that is left out
\* is 0 (undefined and 0 are both falsy); originalRatio > targetRatio is
\* compared by cross products, the sides being positive
CalculateOptimalDimensions(originalWidth, originalHeight, targetWidth, targetHeight, fit) ==
    IF targetWidth = 0 /\ targetHeight = 0 THEN <<originalWidth, originalHeight>>
    ELSE IF targetWidth # 0 /\ targetHeight # 0 /\ fit = "fill"
    THEN <<targetWidth, targetHeight>>
    ELSE IF targetWidth # 0 /\ targetHeight # 0 /\ fit = "contain"
    THEN IF originalWidth * targetHeight > targetWidth * originalHeight
         THEN <<targetWidth, RoundDiv(targetWidth * originalHeight, originalWidth)>>
         ELSE <<RoundDiv(targetHeight * originalWidth, originalHeight), targetHeight>>
    ELSE IF targetWidth # 0 /\ targetHeight # 0 /\ fit = "cover"
    THEN IF originalWidth * targetHeight > targetWidth * originalHeight
         THEN <<RoundDiv(targetHeight * originalWidth, originalHeight), targetHeight>>
         ELSE <<targetWidth, RoundDiv(targetWidth * originalHeight, originalWidth)>>
    ELSE IF targetWidth # 0
    THEN <<targetWidth, RoundDiv(targetWidth * originalHeight, originalWidth)>>
    ELSE <<RoundDiv(targetHeight * originalWidth, originalHeight), targetHeight>>

NoProcessing ==
    [success |-> FALSE, outputPath |-> PathUndef, originalDimensions |-> <<0, 0>>,
     finalDimensions |-> <<0, 0>>, outputFormat |-> "", fileSize |-> 0, error |-> <<>>]

\* processImage's catch block with the message lost
ProcessingFailure_NoMessage(path, msg) ==
    [success |-> FALSE, outputPath |-> path, originalDimensions |-> <<0, 0>>,
     finalDimensions |-> <<0, 0>>, outputFormat |-> "unknown", fileSize |-> 0,
     error |-> <<>>]

\* processImage's catch block
ProcessingFailure(path, msg) ==
    [success |-> FALSE, outputPath |-> path, originalDimensions |-> <<0, 0>>,
     finalDimensions |-> <<0, 0>>, outputFormat |-> "unknown", fileSize |-> 0,
     error |-> msg]

\* a successful result; fileSize counts the bytes written as 1, there being
\* at least one
ProcessingSuccess(path, orig, final, format) ==
    [success |-> TRUE, outputPath |-> path, originalDimensions |-> orig,
     finalDimensions |-> final, outputFormat |-> format, fileSize |-> 1,
     error |-> <<>>]

----------------------------------------------------------------------------
(* TempManager (temp-manager.ts) *)

TempNames == <<"flux-processing-1", "flux-processing-2">>

\* createTempFile: join(tempDir, `flux-${purpose}-${timestamp}-${random}${extension}`)
TempFileName(n) == Path(TempDir, TempNames[n], ".tmp")

\* cleanupTempFile: fs.stat rejects when nothing is at the path, and the
\* catch block returns false before tempFiles.delete is reached
CleanupTempFile(tracked, onDisk, p) ==
    IF p \in onDisk
    THEN [ok |-> TRUE, tracked |-> tracked \ {p}, onDisk |-> onDisk \ {p}]
    ELSE [ok |-> FALSE, tracked |-> tracked, onDisk |-> onDisk]

----------------------------------------------------------------------------
(* The tool-call handler (index.ts) *)

\* the destructured arguments with the configured defaults
ArgModel == OrDefault(args.model, Str(DefaultModel)).v
ArgAspectRatio == OrDefault(args.aspect_ratio, Str(DefaultAspectRatio)).v
ArgOutputFormat == OrDefault(args.output_format, Str(DefaultOutputFormat)).v
ArgQuality == OrDefault(args.quality, Num(DefaultQuality)).n

\* the checks of handleImageGeneration before its first await: the message
\* of the error thrown, <<>> when the request passes
EntryError(a) ==
    IF ~TruthyPrompt(a.prompt) \/ a.prompt.t # "str"
    THEN <<"Prompt is required and must be a string">>
    ELSE IF ~TruthyPath(a.output_path) \/ a.output_path.t # "str"
    THEN <<"Output path is required and must be a string">>
    ELSE LET errors == ValidateParams(a.prompt,
                                      OrDefault(a.model, Str(DefaultModel)).v,
                                      OrDefault(a.aspect_ratio, Str(DefaultAspectRatio)).v)
         IN IF errors # <<>> THEN <<"Invalid parameters: ">> \o errors ELSE <<>>

NoResponse ==
    [kind |-> "none", isError |-> FALSE, text |-> <<>>,
     local_file_path |-> PathUndef, final_dimensions |-> <<0, 0>>, output_format |-> ""]

\* a handler that lets the error through
CatchResponse_Rethrow(msg) ==
    [kind |-> "rejected", isError |-> FALSE, text |-> msg,
     local_file_path |-> PathUndef, final_dimensions |-> <<0, 0>>, output_format |-> ""]

\* the catch block of the CallToolRequestSchema handler; error.message may be
\* empty, the prefix never is
CatchResponse(msg) ==
    [kind |-> "failure", isError |-> TRUE,
     text |-> <<"Error generating image: ">> \o msg,
     local_file_path |-> PathUndef, final_dimensions |-> <<0, 0>>, output_format |-> ""]

\* the success payload of handleImageGeneration
SuccessResponse(pr) ==
    [kind |-> "success", isError |-> FALSE, text |-> <<"success">>,
     local_file_path |-> pr.outputPath, final_dimensions |-> pr.finalDimensions,
     output_format |-> pr.outputFormat]

NoResult == [threw |-> FALSE, success |-> FALSE, imageUrls |-> <<>>, error |-> <<>>]

\* if (!result.success) throw ...; if (!imageUrl) throw ...: the message of
\* the error thrown, <<>> when the download may start
GenerationError(r) ==
    IF ~r.success THEN OrMessage(r.error, <<"Image generation failed">>)
    ELSE IF r.imageUrls = <<>> \/ r.imageUrls[1] = ""
    THEN <<"No image URL returned from generation">>
    ELSE <<>>

\* processImage with the writeFile failure swallowed
ProcessImage_WriteUnchecked(buffer, path, format, quality, w, h, dirOk, encOk, writeOk) ==
    IF ~buffer.decodable
    THEN ProcessingFailure(path, <<"Input buffer contains unsupported image format">>)
    ELSE ProcessingSuccess(path, <<buffer.width, buffer.height>>,
                           SharpResize(buffer.width, buffer.height, w, h),
                           DetermineOutputFormat(path, format))

\* processImage: what it returns; dirOk, encOk, writeOk tell whether mkdir (when
\* the directory is missing), toBuffer and writeFile succeed
ProcessImage(buffer, path, format, quality, w, h, dirOk, encOk, writeOk) ==
    IF ~buffer.decodable
    THEN ProcessingFailure(path, <<"Input buffer contains unsupported image format">>)
    ELSE IF ~FormatOptionsAccepted(DetermineOutputFormat(path, format), quality)
    THEN ProcessingFailure(path, <<"Expected integer between 0 and 9 for compressionLevel">>)
    ELSE IF ~dirOk
    THEN ProcessingFailure(path, <<"EACCES: permission denied, mkdir">>)
    ELSE IF ~encOk
    THEN ProcessingFailure(path, <<"Encoder failure">>)
    ELSE IF ~writeOk
    THEN ProcessingFailure(path, <<"ENOSPC: no space left on device, write">>)
    ELSE ProcessingSuccess(path, <<buffer.width, buffer.height>>,
                           SharpResize(buffer.width, buffer.height, w, h),
                           DetermineOutputFormat(path, format))

----------------------------------------------------------------------------
(* Actions *)

Append2(l, op, n) == Append(l, <<op, n>>)

\* CallToolRequestSchema handler -> handleImageGeneration, up to the first await
HandleImageGeneration ==
    /\ pc = "received"
    /\ IF EntryError(args) # <<>>
       THEN /\ thrown' = Raise(EntryError(args))
            /\ pc' = "catch"
       ELSE /\ thrown' = thrown
            /\ pc' = "ensureDir"
    /\ UNCHANGED <<restVars, call, ret, sent, args, upstream, calls, attempt, lastError, result, imageBuffer, tempPath,
                   tempFiles, tempSeq, dirs, files, processingResult, response, log>>

\* await this.ensureDirectoryExists(output_path), then generateImageWithRetry is entered
EnsureDirectoryExists ==
    /\ pc = "ensureDir"
    /\ \E mkdirOk \in BOOLEAN :
         LET dir == args.output_path.dir IN
         IF dir \in dirs
         THEN /\ pc' = IF LoopContinues(1, DefaultMaxRetries) THEN "attempt" ELSE "catch"
              /\ thrown' = IF LoopContinues(1, DefaultMaxRetries)
                           THEN thrown ELSE Raise(FinalError(lastError))
              /\ attempt' = 1
              /\ UNCHANGED <<dirs, log>>
         ELSE IF mkdirOk
         THEN /\ dirs' = dirs \cup {dir}
              /\ log' = Append2(log, "mkdir", 0)
              /\ pc' = IF LoopContinues(1, DefaultMaxRetries) THEN "attempt" ELSE "catch"
              /\ thrown' = IF LoopContinues(1, DefaultMaxRetries)
                           THEN thrown ELSE Raise(FinalError(lastError))
              /\ attempt' = 1
         ELSE /\ thrown' = Raise(<<"EACCES: permission denied, mkdir">>)
              /\ pc' = "catch"
              /\ UNCHANGED <<dirs, log, attempt>>
    /\ UNCHANGED <<restVars, call, ret, sent, args, upstream, calls, lastError, result, imageBuffer, tempPath,
                   tempFiles, tempSeq, files, processingResult, response>>

\* the end of one iteration of the retry loop that neither returned nor threw
\* and did not wait: attempt++ and the loop test
LoopStep(le) ==
    /\ attempt' = attempt + 1
    /\ IF LoopContinues(attempt + 1, DefaultMaxRetries)
       THEN /\ pc' = "attempt"
            /\ thrown' = thrown
       ELSE /\ pc' = "catch"
            /\ thrown' = Raise(FinalError(le))

\* one iteration of generateImageWithRetry: generateImage and what follows it
GenerateAttempt ==
    /\ pc = "attempt"
    \* an upstream that has no answer left never settles the call
    /\ CallsUpstream(ArgModel, ArgAspectRatio) => calls < Len(upstream)
    /\ LET called == CallsUpstream(ArgModel, ArgAspectRatio)
           r == GenerateImage(ArgModel, ArgAspectRatio,
                              IF called THEN upstream[calls + 1] ELSE UpObject)
           failed == NextLastError(lastError, IF r.threw THEN r.error
                                   ELSE OrMessage(r.error, <<"Generation failed">>))
       IN /\ calls' = IF called THEN calls + 1 ELSE calls
          /\ log' = IF called THEN Append2(log, "generate", attempt) ELSE log
          /\ sent' = IF called
                     THEN Append(sent, GenerateImageInput(args.prompt, ArgModel,
                                                          ArgAspectRatio))
                     ELSE sent
          /\ IF r.threw /\ IsClientError(r.error)
             THEN /\ lastError' = failed
                  /\ thrown' = Raise(r.error)
                  /\ pc' = "catch"
                  /\ UNCHANGED <<attempt, result>>
             ELSE IF ~r.threw /\ (r.success \/ IsClientError(r.error))
             THEN /\ result' = r
                  /\ pc' = "generated"
                  /\ UNCHANGED <<attempt, lastError, thrown>>
             ELSE /\ lastError' = failed
                  /\ result' = result
                  /\ IF WaitsBeforeRetry(attempt, DefaultMaxRetries)
                     THEN /\ pc' = "backoff"
                          /\ UNCHANGED <<attempt, thrown>>
                     ELSE LoopStep(failed)
    /\ UNCHANGED <<restVars, call, ret, args, upstream, imageBuffer, tempPath, tempFiles, tempSeq, dirs,
                   files, processingResult, response>>

\* await new Promise(resolve => setTimeout(resolve, delay)), then attempt++
Backoff ==
    /\ pc = "backoff"
    /\ log' = Append2(log, "wait", BackoffDelay(DefaultBaseDelay, attempt))
    /\ LoopStep(lastError)
    /\ UNCHANGED <<restVars, call, ret, sent, args, upstream, calls, lastError, result, imageBuffer, tempPath, tempFiles,
                   tempSeq, dirs, files, processingResult, response>>

\* the handler's checks of the generation result
CheckGeneration ==
    /\ pc = "generated"
    /\ IF GenerationError(result) # <<>>
       THEN /\ thrown' = Raise(GenerationError(result))
            /\ pc' = "catch"
       ELSE /\ thrown' = thrown
            /\ pc' = "download"
    /\ UNCHANGED <<restVars, call, ret, sent, args, upstream, calls, attempt, lastError, result, imageBuffer, tempPath,
                   tempFiles, tempSeq, dirs, files, processingResult, response, log>>

\* what fetch(url) may give: a body (an image or bytes that are none), or a failure
DownloadBodies == {Image(100, 100), Garbage}
DownloadErrors == {<<"Failed to download image: ", "4", "0", "4", " Not Found">>,
                   <<"fetch failed">>}

\* await this.replicateClient.downloadImage(imageUrl), then needsProcessing
DownloadImage ==
    /\ pc = "download"
    /\ log' = Append2(log, "download", 0)
    /\ \/ \E body \in DownloadBodies :
            /\ imageBuffer' = body
            /\ pc' = IF NeedsProcessing(args.final_width, args.final_height, ArgOutputFormat,
                                        args.output_path, ArgQuality)
                     THEN "createTemp" ELSE "directSave"
            /\ thrown' = thrown
       \/ \E msg \in DownloadErrors :
            /\ thrown' = Raise(<<"Failed to download image: ">> \o msg)
            /\ pc' = "catch"
            /\ imageBuffer' = imageBuffer
    /\ UNCHANGED <<restVars, call, ret, sent, args, upstream, calls, attempt, lastError, result, tempPath, tempFiles,
                   tempSeq, dirs, files, processingResult, response>>

\* await this.tempManager.createTempFile('processing', '.tmp'), then the
\* options are built and validated inside the try block
CreateTempFile ==
    /\ pc = "createTemp"
    /\ \E mkdirOk \in BOOLEAN :
         IF TempDir \notin dirs /\ ~mkdirOk
         THEN \* ensureTempDirectory rejects: nothing is registered
              /\ thrown' = Raise(<<"EACCES: permission denied, mkdir">>)
              /\ pc' = "catch"
              /\ UNCHANGED <<tempPath, tempFiles, tempSeq, dirs, log>>
         ELSE LET errors == ValidateProcessingOptions(ArgOutputFormat, ArgQuality,
                                HasResize(args.final_width, args.final_height),
                                args.final_width, args.final_height)
              IN /\ dirs' = dirs \cup {TempDir}
                 /\ log' = IF TempDir \in dirs THEN log ELSE Append2(log, "mkdir", 0)
                 /\ tempSeq' = tempSeq + 1
                 /\ tempPath' = TempFileName(tempSeq + 1)
                 /\ tempFiles' = tempFiles \cup {TempFileName(tempSeq + 1)}
                 /\ IF errors # <<>>
                    THEN /\ thrown' = Raise(<<"Invalid processing options: ">> \o errors)
                         /\ pc' = "cleanupErr"
                    ELSE /\ thrown' = thrown
                         /\ pc' = "process"
    /\ UNCHANGED <<restVars, call, ret, sent, args, upstream, calls, attempt, lastError, result, imageBuffer, files,
                   processingResult, response>>

\* await this.imageProcessor.processImage(imageBuffer, processingOptions)
ProcessImageStep ==
    /\ pc = "process"
    /\ \E dirOk, encOk, writeOk \in BOOLEAN :
         LET path == args.output_path
             missing == path.dir \notin dirs
             pr == ProcessImage(imageBuffer, path, ArgOutputFormat, ArgQuality,
                                args.final_width, args.final_height,
                                missing => dirOk, encOk, writeOk)
             prepared == imageBuffer.decodable
                         /\ FormatOptionsAccepted(
                                DetermineOutputFormat(path, ArgOutputFormat), ArgQuality)
             madeDir == prepared /\ missing /\ dirOk
             wrote == prepared /\ (missing => dirOk) /\ encOk /\ writeOk
         IN /\ processingResult' = pr
            /\ dirs' = IF madeDir THEN dirs \cup {path.dir} ELSE dirs
            /\ files' = IF wrote THEN files \cup {path} ELSE files
            /\ log' = (IF madeDir THEN Append2(log, "mkdir", 0) ELSE log)
                       \o (IF wrote THEN <<<<"write", 0>>>> ELSE <<>>)
            /\ IF pr.success
               THEN /\ thrown' = thrown
                    /\ pc' = "cleanupOk"
               ELSE /\ thrown' = Raise(OrMessage(pr.error, <<"Image processing failed">>))
                    /\ pc' = "cleanupErr"
    /\ UNCHANGED <<restVars, call, ret, sent, args, upstream, calls, attempt, lastError, result, imageBuffer, tempPath,
                   tempFiles, tempSeq, response>>

\* try: await this.tempManager.cleanupTempFile(tempPath), after the processing
CleanupAfterSuccess ==
    /\ pc = "cleanupOk"
    /\ LET c == CleanupTempFile(tempFiles, files, tempPath)
       IN /\ tempFiles' = c.tracked
          /\ files' = c.onDisk
    /\ pc' = "respond"
    /\ UNCHANGED <<restVars, call, ret, sent, args, upstream, calls, attempt, lastError, result, imageBuffer, tempPath,
                   tempSeq, dirs, processingResult, thrown, response, log>>

\* catch: await this.tempManager.cleanupTempFile(tempPath); throw error
CleanupAfterError ==
    /\ pc = "cleanupErr"
    /\ LET c == CleanupTempFile(tempFiles, files, tempPath)
       IN /\ tempFiles' = c.tracked
          /\ files' = c.onDisk
    /\ pc' = "catch"
    /\ UNCHANGED <<restVars, call, ret, sent, args, upstream, calls, attempt, lastError, result, imageBuffer, tempPath,
                   tempSeq, dirs, processingResult, thrown, response, log>>

\* no processing: ensureDirectoryExists, fs.writeFile, getImageMetadata
DirectSave ==
    /\ pc = "directSave"
    /\ \E dirOk, writeOk \in BOOLEAN :
         LET path == args.output_path
             missing == path.dir \notin dirs
         IN IF missing /\ ~dirOk
            THEN /\ thrown' = Raise(<<"EACCES: permission denied, mkdir">>)
                 /\ pc' = "catch"
                 /\ UNCHANGED <<dirs, files, log, processingResult>>
            ELSE IF ~writeOk
            THEN /\ thrown' = Raise(<<"ENOSPC: no space left on device, write">>)
                 /\ pc' = "catch"
                 /\ dirs' = dirs \cup {path.dir}
                 /\ log' = IF missing THEN Append2(log, "mkdir", 0) ELSE log
                 /\ UNCHANGED <<files, processingResult>>
            ELSE /\ dirs' = dirs \cup {path.dir}
                 /\ files' = files \cup {path}
                 /\ log' = (IF missing THEN Append2(log, "mkdir", 0) ELSE log)
                            \o <<<<"write", 0>>>>
                 /\ IF imageBuffer.decodable
                    THEN /\ processingResult' =
                              ProcessingSuccess(path,
                                  <<imageBuffer.width, imageBuffer.height>>,
                                  <<imageBuffer.width, imageBuffer.height>>,
                                  DetermineFormatFromPath(path))
                         /\ thrown' = thrown
                         /\ pc' = "respond"
                    ELSE \* getImageMetadata rejects after the file was written
                         /\ thrown' = Raise(<<"Input buffer contains unsupported image format">>)
                         /\ pc' = "catch"
                         /\ processingResult' = processingResult
    /\ UNCHANGED <<restVars, call, ret, sent, args, upstream, calls, attempt, lastError, result, imageBuffer, tempPath,
                   tempFiles, tempSeq, response>>

\* return { content: [...] }: the success payload
Respond ==
    /\ pc = "respond"
    /\ response' = SuccessResponse(processingResult)
    /\ pc' = "done"
    /\ UNCHANGED <<restVars, call, ret, sent, args, upstream, calls, attempt, lastError, result, imageBuffer, tempPath,
                   tempFiles, tempSeq, dirs, files, processingResult, thrown, log>>

\* the catch block of the tool-call handler
ToolCallCatch ==
    /\ pc = "catch"
    /\ response' = CatchResponse(thrown.msg)
    /\ thrown' = NoError
    /\ pc' = "done"
    /\ UNCHANGED <<restVars, call, ret, sent, args, upstream, calls, attempt, lastError, result, imageBuffer, tempPath,
                   tempFiles, tempSeq, dirs, files, processingResult, log>>

----------------------------------------------------------------------------
(* getAspectRatio (replicate.ts).  Numbers are exact: a comparison of two
   quotients is the comparison of their cross products, all sides being
   positive. *)

\* Math.abs
Abs(x) == IF x < 0 THEN -x ELSE x

\* Math.abs(width / height - a / b) < 0.01
Matches(width, height, a, b) == 100 * Abs(width * b - a * height) < height * b

\* the tests of getAspectRatio with 3:4 and 4:3 taken for each other
RatioTests_Swapped ==
    << <<1, 1, "1:1">>, <<4, 3, "3:4">>, <<3, 4, "4:3">>, <<16, 9, "16:9">>,
       <<9, 16, "9:16">>, <<21, 9, "21:9">>, <<9, 21, "9:21">>, <<2, 3, "2:3">>,
       <<3, 2, "3:2">> >>

\* the tests of getAspectRatio in the order they are made: <<a, b, name>>
RatioTests ==
    << <<1, 1, "1:1">>, <<4, 3, "4:3">>, <<3, 4, "3:4">>, <<16, 9, "16:9">>,
       <<9, 16, "9:16">>, <<21, 9, "21:9">>, <<9, 21, "9:21">>, <<2, 3, "2:3">>,
       <<3, 2, "3:2">> >>

\* the closest-ratio fallback without its last landscape return
ClosestRatio_NoUltraWide(width, height) ==
    IF width > height
    THEN IF 10 * width < 14 * height THEN "4:3"
         ELSE IF 10 * width < 16 * height THEN "3:2"
         ELSE IF 10 * width < 21 * height THEN "16:9"
         ELSE "undefined"
    ELSE IF 10 * width > 8 * height THEN "3:4"
         ELSE IF 100 * width > 65 * height THEN "2:3"
         ELSE IF 2 * width > height THEN "9:16"
         ELSE "9:21"

\* if no test matched: the closest standard ratio by thresholds
ClosestRatio(width, height) ==
    IF width > height
    THEN IF 10 * width < 14 * height THEN "4:3"
         ELSE IF 10 * width < 16 * height THEN "3:2"
         ELSE IF 10 * width < 21 * height THEN "16:9"
         ELSE "21:9"
    ELSE IF 10 * width > 8 * height THEN "3:4"
         ELSE IF 100 * width > 65 * height THEN "2:3"
         ELSE IF 2 * width > height THEN "9:16"
         ELSE "9:21"

\* getAspectRatio: the first test that matches returns
GetAspectRatio(width, height) ==
    LET hits == {i \in 1..Len(RatioTests) :
                    Matches(width, height, RatioTests[i][1], RatioTests[i][2])}
    IN IF hits # {}
       THEN RatioTests[CHOOSE i \in hits : \A j \in hits : i <= j][3]
       ELSE ClosestRatio(width, height)

----------------------------------------------------------------------------
(* Functions applied on their own *)

NoCall == [fn |-> "", a |-> 0, b |-> 0, c |-> 0, d |-> 0, opt |-> ""]
NoReturn == [done |-> FALSE, name |-> "", dims |-> <<0, 0>>, errors |-> <<>>]
Call(fn, a, b, c, d, opt) == [fn |-> fn, a |-> a, b |-> b, c |-> c, d |-> d, opt |-> opt]

----------------------------------------------------------------------------
(* Requests and initial states *)

MakeArgs(p, m, ar, op, fw, fh, of, q) ==
    [prompt |-> p, model |-> m, aspect_ratio |-> ar, output_path |-> op,
     final_width |-> fw, final_height |-> fh, output_format |-> of, quality |-> q]

\* {prompt: "cat", output_path: "/out/a.jpg"}: saved without processing
BaseArgs ==
    MakeArgs(PromptStr(0, 3, 0), Undef, Undef, Path("/out", "a", ".jpg"),
             NumUndef, NumUndef, Undef, NumUndef)

Prompts == {PromptUndef, PromptNum, PromptStr(0, 0, 0), PromptStr(2, 0, 0),
            PromptStr(1, 3, 1), PromptStr(0, MaxPromptLength, 0),
            PromptStr(0, MaxPromptLength + 1, 0)}
Models == {Undef, Str("flux-schnell"), Str("flux-ultra")}
AspectRatios == {Undef, Str("16:9"), Str("2:3")}
OutputPaths == {PathUndef, Path("/out", "a", ".png"), Path("/new", "b", ".jpg")}
Widths == {NumUndef, Num(0), Num(-5), Num(50)}
Heights == {NumUndef, Num(50)}
Formats == {Undef, Str("png"), Str("gif")}
Qualities == {NumUndef, Num(0), Num(3), Num(101)}

ArgsSet ==
    {MakeArgs(p, m, ar, op, fw, fh, of, q) :
        p \in Prompts, m \in Models, ar \in AspectRatios, op \in OutputPaths,
        fw \in Widths, fh \in Heights, of \in Formats, q \in Qualities}

\* the parts of the program outside the tool-call handler, when they do not run
CmIdle == [phase |-> "idle"]
GcIdle == [phase |-> "idle"]
SrvIdle ==
    [phase |-> "idle", attempts |-> 0, client |-> FALSE, healthy |-> FALSE,
     connected |-> FALSE, served |-> 0, exited |-> FALSE, exitCode |-> 0,
     interval |-> FALSE, tracked |-> <<>>, onDisk |-> {}, handlers |-> <<>>,
     ticks |-> 0]

RestIdle ==
    /\ cm = CmIdle
    /\ gc = GcIdle
    /\ srv = SrvIdle
    /\ requests = <<>>
    /\ worlds = <<>>

\* the upstream's scripted answers in the retry scenarios
RetryScripts == [1..ScriptLen -> UpstreamOutcomes]
\* and in the scenarios that vary the request
RequestScripts == {<<Ok1>>, <<Ok2>>, <<E500, Ok1>>, <<E500, E401>>}

Init ==
    /\ \/ args = BaseArgs /\ upstream \in RetryScripts
       \/ args \in ArgsSet /\ upstream \in RequestScripts
    /\ calls = 0
    /\ pc = "received"
    /\ attempt = 0
    /\ lastError = [set |-> FALSE, msg |-> <<>>]
    /\ result = NoResult
    /\ imageBuffer = NoBuffer
    /\ tempPath = PathUndef
    /\ tempFiles = {}
    /\ tempSeq = 0
    /\ dirs = {"/out"}
    /\ files = {}
    /\ processingResult = NoProcessing
    /\ thrown = NoError
    /\ response = NoResponse
    /\ log = <<>>
    /\ sent = <<>>
    /\ call = NoCall
    /\ ret = NoReturn
    /\ RestIdle

Next ==
    \/ HandleImageGeneration
    \/ EnsureDirectoryExists
    \/ GenerateAttempt
    \/ Backoff
    \/ CheckGeneration
    \/ DownloadImage
    \/ CreateTempFile
    \/ ProcessImageStep
    \/ CleanupAfterSuccess
    \/ CleanupAfterError
    \/ DirectSave
    \/ Respond
    \/ ToolCallCatch

Spec == Init /\ [][Next]_vars

----------------------------------------------------------------------------
(* The functions applied on their own, each to one drawn input *)

\* the handler is not running while a function is applied on its own
HandlerIdle ==
    /\ args = BaseArgs
    /\ upstream = <<>>
    /\ calls = 0
    /\ pc = "idle"
    /\ attempt = 0
    /\ lastError = [set |-> FALSE, msg |-> <<>>]
    /\ result = NoResult
    /\ imageBuffer = NoBuffer
    /\ tempPath = PathUndef
    /\ tempFiles = {}
    /\ tempSeq = 0
    /\ dirs = {"/out"}
    /\ files = {}
    /\ processingResult = NoProcessing
    /\ thrown = NoError
    /\ response = NoResponse
    /\ log = <<>>
    /\ sent = <<>>

handlerVars == <<args, upstream, calls, pc, attempt, lastError, result, imageBuffer,
                 tempPath, tempFiles, tempSeq, dirs, files, processingResult, thrown,
                 response, log, sent>>

\* const aspectRatio = getAspectRatio(width, height)
GetAspectRatioCall ==
    /\ call.fn = "getAspectRatio"
    /\ ~ret.done
    /\ ret' = [done |-> TRUE, name |-> GetAspectRatio(call.a, call.b),
               dims |-> <<0, 0>>, errors |-> <<>>]
    /\ UNCHANGED <<restVars, call, handlerVars>>

\* const validation = this.imageProcessor.validateProcessingOptions(options),
\* the options being {outputPath, outputFormat, quality}
ValidateProcessingOptionsCall ==
    /\ call.fn = "validateProcessingOptions"
    /\ ~ret.done
    /\ ret' = [done |-> TRUE, name |-> "", dims |-> <<0, 0>>,
               errors |-> ValidateProcessingOptions(call.opt, call.a, FALSE,
                                                    NumUndef, NumUndef)]
    /\ UNCHANGED <<restVars, call, handlerVars>>

\* imageProcessor.calculateOptimalDimensions(200, 100, 100, 100, 'contain')
CalculateOptimalDimensionsCall ==
    /\ call.fn = "calculateOptimalDimensions"
    /\ ~ret.done
    /\ ret' = [done |-> TRUE, name |-> "",
               dims |-> CalculateOptimalDimensions(call.a, call.b, call.c, call.d,
                                                   call.opt),
               errors |-> <<>>]
    /\ UNCHANGED <<restVars, call, handlerVars>>

\* the sides tried with getAspectRatio
MaxSide == 24
\* the sides tried with calculateOptimalDimensions
MaxDim == 5
\* the qualities tried with validateProcessingOptions: MinQuality..MaxQuality
MaxQuality == 102

ResolverCalls ==
    {Call("getAspectRatio", w, h, 0, 0, "") : w \in 1..MaxSide, h \in 1..MaxSide}

ValidatorCalls ==
    {Call("validateProcessingOptions", q, 0, 0, 0, f) :
        q \in (-2)..MaxQuality, f \in {"", "jpg", "png", "gif"}}

FitModes == {"contain", "cover", "fill"}

\* small sources and targets, and the 200x100 source of the test suite
CalculatorCalls ==
    {Call("calculateOptimalDimensions", ow, oh, tw, th, fit) :
        ow \in 1..MaxDim, oh \in 1..MaxDim, tw \in 0..MaxDim, th \in 0..MaxDim,
        fit \in FitModes}
    \cup {Call("calculateOptimalDimensions", 200, 100, t, t, fit) :
            t \in {50, 100}, fit \in FitModes}

FunctionsInit ==
    /\ HandlerIdle
    /\ call \in ResolverCalls \cup ValidatorCalls \cup CalculatorCalls
    /\ ret = NoReturn
    /\ RestIdle

FunctionsNext ==
    \/ GetAspectRatioCall
    \/ ValidateProcessingOptionsCall
    \/ CalculateOptimalDimensionsCall

FunctionsSpec == FunctionsInit /\ [][FunctionsNext]_vars


----------------------------------------------------------------------------
(* Vocabulary of the properties *)

\* the entries of the log with one of the given operations
LogOf(ops) == SelectSeq(log, LAMBDA e : e[1] \in ops)

\* the retry wrapper's part of the log: upstream calls and backoff waits
RetryLog == LogOf({"generate", "wait"})

\* the upstream answers that generateImage reports as a success
IsSuccessAnswer(o) == o.kind \in {"array", "string"}

\* the text of an upstream failure as generateImage reports it
AnswerError(o) ==
    IF o.kind = "error" THEN o.msg ELSE <<"Unexpected prediction result format">>

\* an upstream failure whose text names 400, 401 or 403
IsClientFailure(o) ==
    /\ ~IsSuccessAnswer(o)
    /\ \E code \in {<<"4", "0", "0">>, <<"4", "0", "1">>, <<"4", "0", "3">>} :
           Includes(AnswerError(o), code)

IsOtherFailure(o) == ~IsSuccessAnswer(o) /\ ~IsClientFailure(o)

\* generateImageWithRetry was entered and has returned or thrown
RetryFinished == attempt >= 1 /\ pc \notin {"attempt", "backoff"}

\* the first n upstream answers are failures that are not client errors
FirstFail(n) == Len(upstream) >= n /\ \A i \in 1..n : IsOtherFailure(upstream[i])

----------------------------------------------------------------------------
(* C1: whatever the upstream answers, generateImageWithRetry makes at most
   3 attempts, attempt i makes exactly one upstream call (the i-th), and no
   attempt follows the first attempt that succeeds. *)
C1_BoundedAttempts ==
    /\ calls <= 3
    /\ LogOf({"generate"}) = [i \in 1..calls |-> <<"generate", i>>]
    /\ pc = "attempt" => calls = attempt - 1
    /\ pc = "backoff" => calls = attempt
    /\ \A i \in 1..calls : IsSuccessAnswer(upstream[i]) => calls = i /\ RetryFinished

\* two failures, then the third attempt succeeds and the fourth answer is never asked for
C1_Witness ==
    /\ pc = "done"
    /\ calls = 3
    /\ Len(upstream) >= 4
    /\ IsSuccessAnswer(upstream[3])
    /\ response.kind = "success"

(* C2 as stated: three consecutive failures that are not client errors,
   followed by a success, give exactly 3 attempts and a successful result. *)
C2_Original ==
    (RetryFinished /\ FirstFail(3) /\ Len(upstream) >= 4 /\ IsSuccessAnswer(upstream[4]))
        => (calls = 3 /\ result.success)

(* C2, amended: with max-retries = 3, three consecutive failures that are
   not client errors give exactly 3 attempts and a failure, whatever the
   upstream would answer next; two such failures followed by a success give
   exactly 3 attempts and a successful result. *)
C2_ThreeAttempts ==
    /\ (RetryFinished /\ FirstFail(3))
          => /\ calls = 3
             /\ ~result.success
             /\ pc = "done" => response.isError
    /\ (RetryFinished /\ FirstFail(2) /\ Len(upstream) >= 3 /\ IsSuccessAnswer(upstream[3]))
          => /\ calls = 3
             /\ result.success
             /\ result.imageUrls = upstream[3].urls

\* three failures were answered, a success was scripted fourth, and the call failed
C2_Witness ==
    /\ pc = "done"
    /\ FirstFail(3)
    /\ Len(upstream) >= 4
    /\ IsSuccessAnswer(upstream[4])
    /\ calls = 3
    /\ ~result.success
    /\ response.isError

(* C3: an attempt that fails with a text naming 400, 401 or 403 ends the
   retry at once: it is the last upstream call, no backoff wait follows it,
   and its failure is what the caller gets; a 401 on the first attempt
   leaves exactly 1 attempt. *)
C3_ClientErrorAborts ==
    \A i \in 1..calls :
        IsClientFailure(upstream[i]) =>
            /\ calls = i
            /\ RetryFinished
            /\ Len(LogOf({"wait"})) = i - 1
            /\ Len(RetryLog) > 0 /\ RetryLog[Len(RetryLog)] = <<"generate", i>>
            /\ ~result.success
            /\ result.error = upstream[i].msg
            /\ pc = "catch" => thrown = Raise(upstream[i].msg)
            /\ pc = "done" =>
                  /\ response.isError
                  /\ response.text = <<"Error generating image: ">> \o upstream[i].msg

\* a 401 on the first attempt: one call, a failure response
C3_Witness ==
    /\ pc = "done"
    /\ upstream[1] = E401
    /\ calls = 1
    /\ LogOf({"wait"}) = <<>>
    /\ response.isError

(* C4: when all 3 attempts fail with errors that are not client errors, all
   3 attempts are made and the error raised carries the failure of the
   third attempt, not of an earlier one. *)
C4_LastErrorRaised ==
    (RetryFinished /\ FirstFail(3)) =>
        LET last == OrMessage(AnswerError(upstream[3]), <<"Generation failed">>)
        IN /\ LogOf({"generate"}) = <<<<"generate", 1>>, <<"generate", 2>>, <<"generate", 3>>>>
           /\ pc = "catch" => thrown = Raise(last)
           /\ pc = "done" => response.text = <<"Error generating image: ">> \o last
           /\ pc \in {"catch", "done"}

\* the third failure differs from the first two and is the one reported
C4_Witness ==
    /\ pc = "done"
    /\ FirstFail(3)
    /\ upstream[1] = E500
    /\ upstream[2] = E500
    /\ upstream[3] = UpObject
    /\ response.text = <<"Error generating image: ", "Unexpected prediction result format">>

(* C5: the wait after failed attempt k, k < 3, lasts 1000 * 2^(k-1) ms
   (1000, then 2000); every attempt after the first is preceded by that
   wait, and no wait follows the last attempt. *)
C5_Backoff ==
    /\ Len(RetryLog) <= 5
    /\ \A i \in 1..Len(RetryLog) :
          RetryLog[i] = <<<<"generate", 1>>, <<"wait", 1000>>, <<"generate", 2>>,
                          <<"wait", 2000>>, <<"generate", 3>>>>[i]
    /\ pc = "backoff" => Len(RetryLog) \in {1, 3}
    /\ pc = "attempt" => Len(RetryLog) \in {0, 2, 4}
    /\ RetryFinished => Len(RetryLog) > 0 /\ RetryLog[Len(RetryLog)][1] = "generate"

\* three failed attempts: waits of 1000 and 2000 between them, none after the third
C5_Witness ==
    /\ pc = "done"
    /\ FirstFail(3)
    /\ RetryLog = <<<<"generate", 1>>, <<"wait", 1000>>, <<"generate", 2>>,
                    <<"wait", 2000>>, <<"generate", 3>>>>

----------------------------------------------------------------------------
\* the request as the handler sees it, in the words of the tool's interface
PromptIsBad ==
    \/ args.prompt.t # "str"
    \/ args.prompt.core = 0
    \/ args.prompt.lead + args.prompt.core + args.prompt.trail > 1000

ModelIsBad ==
    args.model.t # "undef" /\ args.model.v \notin {"flux-pro", "flux-schnell"}

AspectRatioIsBad ==
    /\ args.aspect_ratio.t # "undef"
    /\ args.aspect_ratio.v \notin {"1:1", "16:9", "9:16", "4:3", "3:4", "21:9", "9:21"}

\* what the request has done to the network and to the disk
NoNetworkActivity == calls = 0 /\ LogOf({"generate", "download"}) = <<>>
NoDiskActivity ==
    /\ LogOf({"mkdir", "write"}) = <<>>
    /\ dirs = {"/out"}
    /\ files = {}

(* C6: a request whose prompt is absent, not a text, empty, blank or longer
   than 1000 characters, or whose model or aspect ratio is not supported,
   is rejected without any upstream call, download, directory creation or
   file write. *)
C6_InvalidRequestRejected ==
    (PromptIsBad \/ ModelIsBad \/ AspectRatioIsBad) =>
        /\ NoNetworkActivity
        /\ NoDiskActivity
        /\ pc \in {"received", "catch", "done"}
        /\ pc = "done" => response.isError

\* a prompt of 1001 characters for a directory that does not exist yet: rejected
C6_Witness ==
    /\ pc = "done"
    /\ args.prompt = PromptStr(0, 1001, 0)
    /\ ~ModelIsBad /\ ~AspectRatioIsBad
    /\ args.output_path.dir = "/new"
    /\ response.isError
    /\ "/new" \notin dirs

\* the texts of the errors that validation raises
IsValidationError(msg) ==
    /\ msg # <<>>
    /\ msg[1] \in {"Prompt is required and must be a string",
                    "Output path is required and must be a string",
                    "Invalid parameters: ", "Invalid processing options: "}

(* C7: every validation error of a request (quality outside 1..100, a zero
   or negative resize dimension, an unknown output format included) is
   raised before any network activity and before any disk activity of the
   request. *)
C7_ValidationBeforeEffects ==
    (thrown.raised /\ IsValidationError(thrown.msg)) =>
        (NoNetworkActivity /\ NoDiskActivity)

(* C8: a generate_image call that terminates returns a success payload or
   a failure payload (isError with a message); an error raised at any step
   is on its way to the handler's catch block and never leaves the handler. *)
C8_AlwaysAPayload ==
    /\ pc = "done" =>
          /\ response.kind \in {"success", "failure"}
          /\ response.kind = "failure" => response.isError /\ response.text # <<>>
          /\ response.kind = "success" => ~response.isError
          /\ ~thrown.raised
    /\ thrown.raised => pc \in {"catch", "cleanupErr"}
    /\ pc # "done" => response.kind = "none"

\* a write failure inside the image processor ends as a failure payload
C8_Witness ==
    /\ pc = "done"
    /\ response.kind = "failure"
    /\ response.text = <<"Error generating image: ", "ENOSPC: no space left on device, write">>
    /\ processingResult.outputFormat = "unknown"

\* the pipeline steps of the log
StepLog == LogOf({"generate", "wait", "download", "write"})
StepRank(op) == CASE op \in {"generate", "wait"} -> 1
                  [] op = "download" -> 2
                  [] OTHER -> 3

\* validate, generate, download, write, respond follow each other
C9_Order ==
    /\ \A i, j \in 1..Len(StepLog) :
          i < j => StepRank(StepLog[i][1]) <= StepRank(StepLog[j][1])
    /\ Len(LogOf({"download"})) <= 1
    /\ Len(LogOf({"write"})) <= 1
    /\ log # <<>> => EntryError(args) = <<>>
    /\ LogOf({"download"}) # <<>> =>
          result.success /\ Len(result.imageUrls) >= 1 /\ RetryFinished
    /\ LogOf({"write"}) # <<>> =>
          imageBuffer.present /\ LogOf({"download"}) # <<>>
    /\ response.kind = "success" =>
          /\ LogOf({"write"}) # <<>>
          /\ response.local_file_path \in files
    /\ response.kind = "failure" =>
          /\ ~result.success => LogOf({"download", "write"}) = <<>>
          /\ ~imageBuffer.present => LogOf({"write"}) = <<>>

(* C9: within one request the steps run in the order validate, generate,
   download, process/write, respond: the download starts only after a
   generation that succeeded with at least one URL, the write only after
   the download completed, a success is returned only after the file was
   written, and once a step has failed no later step is executed. *)
C9_StrictSequence ==
    /\ []C9_Order
    /\ [][thrown.raised => (log' = log /\ files' = files /\ dirs' = dirs
                            /\ calls' = calls /\ response'.kind # "success")]_vars

\* a processed request that went through every step
C9_Witness ==
    /\ pc = "done"
    /\ response.kind = "success"
    /\ tempPath # PathUndef
    /\ StepLog = <<<<"generate", 1>>, <<"wait", 1000>>, <<"generate", 2>>,
                   <<"download", 0>>, <<"write", 0>>>>

(* C10: when a request fails after a temporary file was registered with
   the TempManager, that file is no longer tracked when the error response
   is returned. *)
C10_TempFileRemoved ==
    (pc = "done" /\ response.kind = "failure" /\ tempPath # PathUndef)
        => tempPath \notin tempFiles

----------------------------------------------------------------------------
(* The Generation Client's result and the input it sends upstream *)

\* the upstream answer that the result handed to the handler was built from
LastAnswer == upstream[calls]

(* C11: every successful result of generateImage carries a non-empty
   sequence of image URLs: a URL string becomes a one-element sequence, a
   list keeps its order, and an empty list or any other shape is reported
   as the failure 'Unexpected prediction result format', not as a success. *)
C11_SuccessHasUrls ==
    pc = "generated" =>
        /\ result.success => result.imageUrls # <<>>
        /\ LastAnswer.kind = "string" =>
              result.success /\ result.imageUrls = LastAnswer.urls
        /\ (LastAnswer.kind = "array" /\ LastAnswer.urls # <<>>) =>
              result.success /\ result.imageUrls = LastAnswer.urls
        /\ (LastAnswer.kind = "object" \/ LastAnswer = OkNone) =>
              /\ ~result.success
              /\ result.error = <<"Unexpected prediction result format">>

\* Math.min(params.num_inference_steps || 4, 4) of replicate.ts
SchnellMaxSteps == 4

(* C12: every input sent upstream for flux-schnell has num_inference_steps
   at most 4 and no guidance_scale; for every other model it carries
   guidance_scale 3.5 and num_inference_steps 28. *)
C12_ModelShaping ==
    \A i \in 1..Len(sent) :
        IF sent[i].model = "flux-schnell"
        THEN /\ sent[i].num_inference_steps.t = "num"
             /\ sent[i].num_inference_steps.n <= SchnellMaxSteps
             /\ sent[i].guidance_scale.t = "undef"
        ELSE /\ sent[i].guidance_scale = Num(DefaultGuidanceScaleTenths)
             /\ sent[i].num_inference_steps = Num(DefaultInferenceSteps)

(* C13: the prompt of every upstream call is the trimmed prompt and is not
   empty: it has no leading and no trailing whitespace. *)
C13_PromptTrimmed ==
    \A i \in 1..Len(sent) :
        /\ sent[i].prompt.t = "str"
        /\ sent[i].prompt.lead = 0
        /\ sent[i].prompt.trail = 0
        /\ sent[i].prompt.core > 0

----------------------------------------------------------------------------
(* The Aspect-Ratio Resolver *)

\* the names getAspectRatio may return
ResolverNames == {"1:1", "4:3", "3:4", "16:9", "9:16", "21:9", "9:21", "2:3", "3:2"}

\* the ratio a name denotes: <<a, b>> for "a:b"
NamedRatio(name) ==
    CASE name = "1:1" -> <<1, 1>>
      [] name = "4:3" -> <<4, 3>>
      [] name = "3:4" -> <<3, 4>>
      [] name = "16:9" -> <<16, 9>>
      [] name = "9:16" -> <<9, 16>>
      [] name = "21:9" -> <<21, 9>>
      [] name = "9:21" -> <<9, 21>>
      [] name = "2:3" -> <<2, 3>>
      [] name = "3:2" -> <<3, 2>>

\* w/h is less than 0.01 away from the ratio r
WithinTolerance(w, h, r) == 100 * Abs(w * r[2] - r[1] * h) < h * r[2]

Resolved == call.fn = "getAspectRatio" /\ ret.done

(* C14: for every pair of positive integers (w, h) whose ratio is within
   0.01 of a known ratio, getAspectRatio returns exactly that ratio,
   whichever of the known ratios is tested first. *)
C14_KnownRatioReturned ==
    Resolved =>
        \A name \in ResolverNames :
            WithinTolerance(call.a, call.b, NamedRatio(name)) => ret.name = name

\* 4/7 is no known ratio, and less than 0.01 away from 9/16
C14_Witness ==
    Resolved /\ call.a = 4 /\ call.b = 7 /\ ret.name = "9:16"

(* C15, as stated: for every pair of positive integers getAspectRatio
   returns one ratio of the enumeration ASPECT_RATIOS that the server
   supports. *)
C15_Original == Resolved => ret.name \in ASPECT_RATIOS

(* C15, amended: for every pair of positive integers getAspectRatio returns
   exactly one of its own nine names, the seven of ASPECT_RATIOS and 2:3
   and 3:2. *)
C15_OneOfNineNames == Resolved => ret.name \in ResolverNames

\* 5/7 matches no test and is classified by the thresholds
C15_Witness ==
    Resolved /\ call.a = 5 /\ call.b = 7 /\ ret.name = "2:3"

----------------------------------------------------------------------------
(* The Post-Processor's validation and its dimension estimate *)

Validated == call.fn = "validateProcessingOptions" /\ ret.done

QualityMessage == "Quality must be between 1 and 100"

(* C16: validateProcessingOptions accepts an integer quality q exactly when
   1 <= q <= 100; outside that range, 0 and 101 included, it reports
   'Quality must be between 1 and 100'. *)
C16_QualityRange ==
    Validated =>
        /\ (\E i \in 1..Len(ret.errors) : ret.errors[i] = QualityMessage)
              <=> ~(1 <= call.a /\ call.a <= 100)
        /\ call.opt \in {"", "jpg", "png"} =>
              (ret.errors = <<>> <=> (1 <= call.a /\ call.a <= 100))
        /\ (call.a \in {0, 101} /\ call.opt = "") => ret.errors = <<QualityMessage>>
        /\ (call.a \in {1, 100} /\ call.opt = "") => ret.errors = <<>>

C16_Witness ==
    Validated /\ call.a = 0 /\ call.opt = "" /\ ret.errors = <<QualityMessage>>

Calculated(fit) ==
    /\ call.fn = "calculateOptimalDimensions"
    /\ call.opt = fit
    /\ call.c # 0
    /\ call.d # 0
    /\ ret.done

\* <<w, h>> has the aspect ratio of the call's source once one side is rounded
AspectPreserved(w, h) ==
    \/ w = call.c /\ 2 * Abs(h * call.a - call.c * call.b) <= call.a
    \/ h = call.d /\ 2 * Abs(w * call.b - call.d * call.a) <= call.b

(* C17: with fit=contain and both target dimensions given, the computed
   dimensions fit inside the target box, one of them equal to the target's,
   and keep the source aspect ratio up to rounding; a 200x100 source with
   target 50x50 gives 50x25. *)
C17_ContainFits ==
    Calculated("contain") =>
        /\ ret.dims[1] <= call.c
        /\ ret.dims[2] <= call.d
        /\ AspectPreserved(ret.dims[1], ret.dims[2])
        /\ <<call.a, call.b, call.c, call.d>> = <<200, 100, 50, 50>>
              => ret.dims = <<50, 25>>

C17_Witness ==
    /\ Calculated("contain")
    /\ <<call.a, call.b, call.c, call.d>> = <<200, 100, 50, 50>>
    /\ ret.dims = <<50, 25>>

(* C18, as stated: with fit=cover on a 200x100 source and target 50x50 the
   final dimensions are 200x100. *)
C18_Original ==
    (Calculated("cover") /\ <<call.a, call.b, call.c, call.d>> = <<200, 100, 50, 50>>)
        => ret.dims = <<200, 100>>

(* C18, amended: with fit=cover and both target dimensions given, the
   computed dimensions cover the target box, one of them equal to the
   target's, and keep the source aspect ratio up to rounding; a 200x100
   source gives 100x50 for target 50x50 and 200x100 for target 100x100. *)
C18_CoverScales ==
    Calculated("cover") =>
        /\ ret.dims[1] >= call.c
        /\ ret.dims[2] >= call.d
        /\ AspectPreserved(ret.dims[1], ret.dims[2])
        /\ <<call.a, call.b, call.c, call.d>> = <<200, 100, 50, 50>>
              => ret.dims = <<100, 50>>
        /\ <<call.a, call.b, call.c, call.d>> = <<200, 100, 100, 100>>
              => ret.dims = <<200, 100>>

C18_Witness ==
    /\ Calculated("cover")
    /\ <<call.a, call.b, call.c, call.d>> = <<200, 100, 50, 50>>
    /\ ret.dims = <<100, 50>>

----------------------------------------------------------------------------
(* The Post-Processor's failures and the format it encodes *)

\* processImage has returned a failure
ProcessingFailed == processingResult # NoProcessing /\ ~processingResult.success

(* C19: processImage never lets a decode, resize, encode or filesystem
   error escape: it returns a failure with the error message set, zero
   dimensions and zero file size, and the handler answers with a failure
   response carrying that message. *)
C19_ProcessingFailureReported ==
    /\ pc \in {"cleanupOk", "respond"} => processingResult.success
    /\ (pc = "cleanupErr" /\ processingResult = NoProcessing) =>
          thrown.msg[1] = "Invalid processing options: "
    /\ ProcessingFailed =>
          /\ processingResult.error # <<>>
          /\ processingResult.originalDimensions = <<0, 0>>
          /\ processingResult.finalDimensions = <<0, 0>>
          /\ processingResult.fileSize = 0
          /\ pc \in {"cleanupErr", "catch", "done"}
          /\ pc \in {"cleanupErr", "catch"} => thrown = Raise(processingResult.error)
          /\ pc = "done" =>
                /\ response.kind = "failure"
                /\ response.isError
                /\ response.text = <<"Error generating image: ">> \o processingResult.error

\* the write of the encoded image failed
C19_Witness ==
    /\ pc = "done"
    /\ ProcessingFailed
    /\ processingResult.error = <<"ENOSPC: no space left on device, write">>
    /\ response.kind = "failure"

(* C20: when the request gives no output format, the format encoded and
   reported in the response is the one of the output path's extension
   (.jpg/.jpeg -> jpg, .png -> png, .webp -> webp), the configured default
   being used only for an extension that is none of these. *)
C20_FormatFromExtension ==
    (pc = "done" /\ response.kind = "success" /\ args.output_format = Undef) =>
        response.output_format =
            (CASE ToLowerCase(args.output_path.ext) \in {".jpg", ".jpeg"} -> "jpg"
               [] ToLowerCase(args.output_path.ext) = ".png" -> "png"
               [] ToLowerCase(args.output_path.ext) = ".webp" -> "webp"
               [] OTHER -> DefaultOutputFormat)

----------------------------------------------------------------------------
(* The output path and its directory *)

\* the directories that exist before any request
InitialDirs == {"/out"}

(* C21: a request that gives only a prompt and a model, against an upstream
   that returns one URL whose bytes decode as a 100x100 image, ends with a
   success response whose final dimensions are 100x100 and whose output
   path was generated under the working directory. *)
C21_PathAutoGenerated ==
    (/\ pc = "done"
     /\ args = MakeArgs(PromptStr(0, MaxPromptLength, 0), Str("flux-schnell"), Undef, PathUndef,
                        NumUndef, NumUndef, Undef, NumUndef)
     /\ upstream = <<Ok1>>)
        => /\ response.kind = "success"
           /\ response.final_dimensions = <<100, 100>>
           /\ response.local_file_path # PathUndef

(* C22: the output directory is created only immediately before the file is
   written: a request that failed during validation, generation or download
   (no image was downloaded) has created no directory. *)
C22_DirectoryCreatedLazily ==
    (pc = "done" /\ response.kind = "failure" /\ imageBuffer = NoBuffer)
        => dirs = InitialDirs /\ LogOf({"mkdir"}) = <<>>

----------------------------------------------------------------------------
(* PNG encoding and the tracked temporary files *)

\* the encoder refused the PNG options
PngOptionsRefused ==
    /\ ProcessingFailed
    /\ DetermineOutputFormat(args.output_path, ArgOutputFormat) = "png"
    /\ processingResult.error = <<"Expected integer between 0 and 9 for compressionLevel">>

(* C28: for every quality that validation accepts (1..100) the PNG
   compression level round((100 - quality) / 10) lies in 0..9, so a valid
   quality never makes the PNG encoding fail. *)
C28_ValidQualityEncodes ==
    (tempPath # PathUndef /\ 1 <= ArgQuality /\ ArgQuality <= 100) =>
        /\ PngCompressionLevel(ArgQuality) \in 0..9
        /\ ~PngOptionsRefused

(* C29: once a request has terminated, with success or with failure, the
   TempManager tracks no temporary file that the request registered: the
   tracked set is what it was before the request. *)
C29_NoTrackedFileLeft ==
    pc = "done" => tempFiles = {}

----------------------------------------------------------------------------
(* The resolver on mirrored inputs *)

\* b:a for a:b
MirrorName(name) ==
    CASE name = "1:1" -> "1:1"
      [] name = "4:3" -> "3:4"
      [] name = "3:4" -> "4:3"
      [] name = "16:9" -> "9:16"
      [] name = "9:16" -> "16:9"
      [] name = "21:9" -> "9:21"
      [] name = "9:21" -> "21:9"
      [] name = "2:3" -> "3:2"
      [] name = "3:2" -> "2:3"

(* C27: getAspectRatio is mirror-symmetric: for all positive integers
   (w, h), if (w, h) resolves to a:b then (h, w) resolves to b:a. *)
C27_MirrorSymmetric ==
    Resolved => GetAspectRatio(call.b, call.a) = MirrorName(ret.name)

----------------------------------------------------------------------------
(* config.ts: the configuration read from the environment and kept in
   globalConfig.  A text of the environment is a sequence of one-character
   tokens. *)

\* number of getConfig() calls followed
MaxGetCalls == 3

NaN == [t |-> "nan", n |-> 0]

DigitChars == {"0", "1", "2", "3", "4", "5", "6", "7", "8", "9"}

DigitValue(c) ==
    CASE c = "0" -> 0 [] c = "1" -> 1 [] c = "2" -> 2 [] c = "3" -> 3
      [] c = "4" -> 4 [] c = "5" -> 5 [] c = "6" -> 6 [] c = "7" -> 7
      [] c = "8" -> 8 [] c = "9" -> 9

RECURSIVE LeadingDigits(_, _, _)
\* the value of the longest run of digits of s that starts at position i,
\* after the digits already read (acc); <<any digit read, value>>
LeadingDigits(s, i, acc) ==
    IF i <= Len(s) /\ s[i] \in DigitChars
    THEN LeadingDigits(s, i + 1, <<TRUE, 10 * acc[2] + DigitValue(s[i])>>)
    ELSE acc

RECURSIVE SkipBlanks(_, _)
SkipBlanks(s, i) == IF i <= Len(s) /\ s[i] = " " THEN SkipBlanks(s, i + 1) ELSE i

\* parseInt(s, 10): blanks, a sign, then the leading digits; NaN without a digit
ParseInt(s) ==
    LET i == SkipBlanks(s, 1)
        neg == i <= Len(s) /\ s[i] = "-"
        j == IF i <= Len(s) /\ s[i] \in {"-", "+"} THEN i + 1 ELSE i
        d == LeadingDigits(s, j, <<FALSE, 0>>)
    IN IF ~d[1] THEN NaN ELSE Num(IF neg THEN 0 - d[2] ELSE d[2])

\* process.env[name]: undefined or a text
EnvUndef == [t |-> "undef", s |-> <<>>]
EnvStr(s) == [t |-> "str", s |-> s]

\* x || '80' on an environment text: the empty text is falsy
OrText(x, d) == IF x.t = "undef" \/ x.s = <<>> THEN d ELSE x.s

NoConfig == [set |-> FALSE, outputQuality |-> Num(0)]
ConfigOf(q) == [set |-> TRUE, outputQuality |-> q]

\* loadConfig(): [threw, config]
LoadConfig(env) ==
    IF env.token.t = "undef" \/ env.token.s = <<>>
    THEN [threw |-> TRUE, config |-> NoConfig]
    ELSE [threw |-> FALSE,
          config |-> ConfigOf(ParseInt(OrText(env.quality, <<"8", "0">>)))]

\* validateConfig(config) throws; a comparison with NaN is false
ValidateConfigThrows(config) ==
    /\ config.outputQuality.t = "num"
    /\ \/ config.outputQuality.n < 1
       \/ config.outputQuality.n > 100

NoGet == [kind |-> "none", config |-> NoConfig]

\* export function getConfig(): one call, with what it returned or that it threw
GetConfig ==
    /\ gc.phase = "module"
    /\ gc.gets < MaxGetCalls
    /\ IF gc.globalConfig.set
       THEN gc' = [gc EXCEPT !.gets = @ + 1,
                             !.last = [kind |-> "returned", config |-> gc.globalConfig]]
       ELSE LET loaded == LoadConfig(gc.env) IN
            IF loaded.threw
            THEN gc' = [gc EXCEPT !.gets = @ + 1,
                                  !.last = [kind |-> "threw", config |-> NoConfig]]
            ELSE IF ValidateConfigThrows(loaded.config)
            THEN gc' = [gc EXCEPT !.gets = @ + 1,
                                  !.globalConfig = loaded.config,
                                  !.last = [kind |-> "threw", config |-> NoConfig]]
            ELSE gc' = [gc EXCEPT !.gets = @ + 1,
                                  !.globalConfig = loaded.config,
                                  !.last = [kind |-> "returned", config |-> loaded.config]]
    /\ UNCHANGED <<cm, srv, requests, worlds, call, ret, handlerVars>>

\* the values of FLUX_OUTPUT_QUALITY and of REPLICATE_API_TOKEN tried
EnvQualities ==
    {EnvUndef, EnvStr(<<>>), EnvStr(<<"1">>), EnvStr(<<"1", "0", "0">>),
     EnvStr(<<"0">>), EnvStr(<<"1", "5", "0">>), EnvStr(<<"-", "5">>),
     EnvStr(<<"9", "0", "%">>), EnvStr(<<"h", "i", "g", "h">>)}
EnvTokens == {EnvUndef, EnvStr(<<"r", "8">>)}

GcInitial ==
    {[phase |-> "module", env |-> [token |-> t, quality |-> q],
      globalConfig |-> NoConfig, last |-> NoGet, gets |-> 0] :
        t \in EnvTokens, q \in EnvQualities}

----------------------------------------------------------------------------
(* ConfigManager (image-processor.ts): the configuration kept in a file *)

\* number of setApiKey calls followed
MaxSetCalls == 3

\* DEFAULT_CONFIG: of the configuration, the model keeps replicate_api_key
DEFAULT_CONFIG == [replicate_api_key |-> Undef]

\* s.trim().length === 0
TrimmedEmpty(s) == s \in {"", " ", "  "}

\* hasApiKey()
HasApiKey(config) ==
    /\ config.replicate_api_key.t = "str"
    /\ config.replicate_api_key.v # ""
    /\ ~TrimmedEmpty(config.replicate_api_key.v)

\* getApiKey()
GetApiKey(config) == config.replicate_api_key

\* the config file: absent, unreadable as JSON, or holding a configuration
NoFile == [exists |-> FALSE, valid |-> FALSE, config |-> DEFAULT_CONFIG]
BadFile == [exists |-> TRUE, valid |-> FALSE, config |-> DEFAULT_CONFIG]
FileOf(config) == [exists |-> TRUE, valid |-> TRUE, config |-> config]

\* saveConfig(): writeFile, then chmod; it throws when either fails
SaveOutcomes == {"ok", "writeFile fails", "chmod fails"}
SavedFile(file, config, outcome) ==
    IF outcome = "writeFile fails" THEN file ELSE FileOf(config)
SaveThrows(outcome) == outcome # "ok"

\* updateConfig: this.config = validatedConfig, before saveConfig is awaited
UpdatedConfig(config, updates, outcome) == updates

\* await configManager.initialize()
ConfigInitialize ==
    /\ cm.phase = "constructed"
    /\ ~srv.exited
    /\ \E dirOk \in BOOLEAN, outcome \in SaveOutcomes :
         LET file == cm.file IN
         IF ~dirOk
         THEN \* ensureConfigDirectory throws: the catch block of initialize
              cm' = [cm EXCEPT !.phase = "initialized", !.config = DEFAULT_CONFIG,
                               !.hadFile = file.exists]
         ELSE IF file.exists
         THEN cm' = [cm EXCEPT !.phase = "initialized",
                               !.config = IF file.valid THEN file.config
                                          ELSE DEFAULT_CONFIG,
                               !.hadFile = TRUE]
         ELSE \* ENOENT: saveConfig() of the configuration in memory
              cm' = [cm EXCEPT !.phase = "initialized",
                               !.config = IF SaveThrows(outcome) THEN DEFAULT_CONFIG
                                          ELSE cm.config,
                               !.file = SavedFile(file, cm.config, outcome),
                               !.hadFile = FALSE]
    /\ UNCHANGED <<gc, srv, requests, worlds, call, ret, handlerVars>>

\* await configManager.setApiKey(apiKey)
SetApiKey ==
    /\ cm.phase = "initialized"
    /\ cm.sets < MaxSetCalls
    /\ \E apiKey \in {"r8_one", "r8_two", " "}, outcome \in SaveOutcomes :
         LET updates == [replicate_api_key |-> Str(apiKey)]
             config == UpdatedConfig(cm.config, updates, outcome)
         IN cm' = [cm EXCEPT !.config = config,
                             !.file = SavedFile(cm.file, updates, outcome),
                             !.sets = @ + 1,
                             !.last = [op |-> "setApiKey", threw |-> SaveThrows(outcome),
                                       apiKey |-> Str(apiKey)],
                             !.lastOk = IF SaveThrows(outcome) THEN @ ELSE Str(apiKey)]
    /\ UNCHANGED <<gc, srv, requests, worlds, call, ret, handlerVars>>

NoOp == [op |-> "none", threw |-> FALSE, apiKey |-> Undef]

\* a ConfigManager just constructed, over each state of the config file
CmInitial ==
    {[phase |-> "constructed", config |-> DEFAULT_CONFIG, file |-> f, hadFile |-> FALSE,
      sets |-> 0, last |-> NoOp, lastOk |-> Undef] :
        f \in {NoFile, BadFile, FileOf(DEFAULT_CONFIG),
               FileOf([replicate_api_key |-> Str("r8_old")])}}

ConfigInit ==
    /\ HandlerIdle
    /\ call = NoCall
    /\ ret = NoReturn
    /\ cm \in CmInitial
    /\ gc \in GcInitial
    /\ srv = SrvIdle
    /\ requests = <<>>
    /\ worlds = <<>>

ConfigNext ==
    \/ GetConfig
    \/ ConfigInitialize
    \/ SetApiKey

ConfigSpec == ConfigInit /\ [][ConfigNext]_vars

----------------------------------------------------------------------------
(* The server process (index.ts): main, initialize, start, the signal
   handlers and shutdown; SetupManager.runSetup (part_001); the client's
   constructor and health check (replicate-client.ts); TempManager.shutdown
   (part_005).  A tracked temporary path is the number of the createTempFile
   call that handed it out. *)

\* generate_image requests followed once the transport is connected
MaxServed == 2
\* signals delivered to the process
MaxSignals == 2
\* firings of the cleanup interval followed
MaxTicks == 1
\* runSetup: const maxAttempts = 3
SetupMaxAttempts == 3

\* the keys the upstream accepts, and the texts that have the form of a key
\* (/^r8_[a-zA-Z0-9]{32,}$/); each name stands for one text
AcceptedKeys == {"r8_good", "r8_new"}
WellFormedKeys == {"r8_good", "r8_new", "r8_revoked"}

\* what the user answers to the prompt, after answer.trim()
TypedKeys == {"", "not a key", "r8_new", "r8_revoked"}

\* validateApiKeyFormat(apiKey).isValid
ValidateApiKeyFormat(apiKey) ==
    /\ apiKey # ""
    /\ ~TrimmedEmpty(apiKey)
    /\ apiKey \in WellFormedKeys

\* the upstream lists its models to whoever asks
ListModels_Open(apiKey, networkUp) == networkUp

\* await client.models.list() resolves: the upstream is reached and accepts the key
ListModels(apiKey, networkUp) == networkUp /\ apiKey \in AcceptedKeys

\* initializeClient: if (!apiKey) throw
ClientConstructorThrows(config) ==
    \/ config.replicate_api_key.t = "undef"
    \/ config.replicate_api_key.v = ""

\* the process is running
Running == ~srv.exited

\* process.exit(code)
Exit(code) == [srv EXCEPT !.exited = TRUE, !.exitCode = code, !.phase = "exited"]

\* initialize(): after configManager.initialize(), if (isSetupRequired())
SetupCheck ==
    /\ Running
    /\ srv.phase = "constructed"
    /\ cm.phase = "initialized"
    /\ srv' = [srv EXCEPT !.phase = IF ~HasApiKey(cm.config) THEN "setup" ELSE "client"]
    /\ UNCHANGED <<cm, gc, requests, worlds, call, ret, handlerVars>>

\* runSetup: one iteration of the loop; when the loop ends runSetup returns
\* false, and so does initialize
SetupAttempt ==
    /\ Running
    /\ srv.phase = "setup"
    /\ \E apiKey \in TypedKeys, networkUp \in BOOLEAN, outcome \in SaveOutcomes :
         IF ~ValidateApiKeyFormat(apiKey) \/ ~ListModels(apiKey, networkUp)
         THEN /\ srv' = [srv EXCEPT !.attempts = @ + 1,
                                    !.phase = IF srv.attempts + 1 < SetupMaxAttempts
                                              THEN "setup" ELSE "failed"]
              /\ cm' = cm
         ELSE LET updates == [replicate_api_key |-> Str(apiKey)] IN
              /\ cm' = [cm EXCEPT !.config = UpdatedConfig(cm.config, updates, outcome),
                                  !.file = SavedFile(cm.file, updates, outcome),
                                  !.sets = @ + 1,
                                  !.last = [op |-> "setApiKey",
                                            threw |-> SaveThrows(outcome),
                                            apiKey |-> Str(apiKey)],
                                  !.lastOk = IF SaveThrows(outcome) THEN @
                                             ELSE Str(apiKey)]
              /\ srv' = [srv EXCEPT !.phase = IF SaveThrows(outcome) THEN "failed"
                                              ELSE "client"]
    /\ UNCHANGED <<gc, requests, worlds, call, ret, handlerVars>>

\* this.replicateClient = new ReplicateClient()
ClientInit ==
    /\ Running
    /\ srv.phase = "client"
    /\ srv' = IF ClientConstructorThrows(cm.config)
              THEN [srv EXCEPT !.phase = "failed"]
              ELSE [srv EXCEPT !.phase = "health", !.client = TRUE]
    /\ UNCHANGED <<cm, gc, requests, worlds, call, ret, handlerVars>>

\* const healthCheck = await this.replicateClient.healthCheck()
HealthCheck ==
    /\ Running
    /\ srv.phase = "health"
    /\ \E networkUp \in BOOLEAN :
         srv' = IF ListModels(GetApiKey(cm.config).v, networkUp)
                THEN [srv EXCEPT !.phase = "initialized", !.healthy = TRUE]
                ELSE [srv EXCEPT !.phase = "failed"]
    /\ UNCHANGED <<cm, gc, requests, worlds, call, ret, handlerVars>>

\* main: if (!initialized) process.exit(1)
InitializationFailed ==
    /\ Running
    /\ srv.phase = "failed"
    /\ srv' = Exit(1)
    /\ UNCHANGED <<cm, gc, requests, worlds, call, ret, handlerVars>>

\* main: await server.start(); a connect that rejects ends in main's catch block
Start ==
    /\ Running
    /\ srv.phase = "initialized"
    /\ \E connects \in BOOLEAN :
         srv' = IF connects
                THEN [srv EXCEPT !.phase = "serving", !.connected = TRUE]
                ELSE Exit(1)
    /\ UNCHANGED <<cm, gc, requests, worlds, call, ret, handlerVars>>

\* a generate_image request served over the transport; one that takes the
\* processing branch registers a temporary path, at which nothing is written
ServeRequest ==
    /\ Running
    /\ srv.connected
    /\ srv.served < MaxServed
    /\ \E needsProcessing \in BOOLEAN :
         srv' = [srv EXCEPT !.served = @ + 1,
                            !.tracked = IF needsProcessing
                                        THEN Append(@, srv.served + 1) ELSE @]
    /\ UNCHANGED <<cm, gc, requests, worlds, call, ret, handlerVars>>

\* the callback of setInterval: cleanupOldFiles(60), no tracked path being an
\* hour old
SchedulerTick ==
    /\ Running
    /\ srv.interval
    /\ srv.ticks < MaxTicks
    /\ srv' = [srv EXCEPT !.ticks = @ + 1]
    /\ UNCHANGED <<cm, gc, requests, worlds, call, ret, handlerVars>>

\* the tracked paths that a run of cleanupAllFiles has still to visit, in the
\* order of the Map
Unvisited(tracked, visited) == SelectSeq(tracked, LAMBDA n : n \notin visited)

\* the loop of cleanupAllFiles ends after its first path
CleanupFinished_AfterFirst(tracked, visited) == visited # {}

\* the loop of cleanupAllFiles has no key left
CleanupFinished(tracked, visited) == Unvisited(tracked, visited) = <<>>

\* the paths tracked after cleanupTempFile(n)
TrackedAfter(tracked, onDisk, n) ==
    IF CleanupTempFile({n}, onDisk, n).ok
    THEN SelectSeq(tracked, LAMBDA m : m # n)
    ELSE tracked

\* process.on('SIGINT' | 'SIGTERM'): shutdown() runs up to its first await
\* that leaves the event loop free: the scheduler is stopped and
\* cleanupAllFiles awaits fs.stat of its first path; with no tracked path the
\* handler runs through to process.exit(0)
Signal ==
    /\ Running
    /\ srv.phase # "idle"
    /\ Len(srv.handlers) < MaxSignals
    /\ \E sig \in {"SIGINT", "SIGTERM"} :
         LET stopped == [srv EXCEPT !.interval = FALSE] IN
         IF CleanupFinished(srv.tracked, {})
         THEN srv' = [Exit(0) EXCEPT !.interval = FALSE,
                          !.handlers = Append(@, [sig |-> sig, visited |-> {},
                                                  finished |-> TRUE])]
         ELSE srv' = [stopped EXCEPT
                          !.handlers = Append(@, [sig |-> sig, visited |-> {},
                                                  finished |-> FALSE])]
    /\ UNCHANGED <<cm, gc, requests, worlds, call, ret, handlerVars>>

\* one cleanupTempFile of a handler's cleanupAllFiles settles; after the last
\* one cleanupAllFiles, shutdown and the await of the handler return, and the
\* handler calls process.exit(0)
CleanupStep ==
    /\ Running
    /\ \E h \in 1..Len(srv.handlers) :
         LET handler == srv.handlers[h]
             n == Head(Unvisited(srv.tracked, handler.visited))
             tracked == TrackedAfter(srv.tracked, srv.onDisk, n)
             visited == handler.visited \cup {n}
             after == [srv EXCEPT !.tracked = tracked,
                                  !.onDisk = CleanupTempFile({n}, srv.onDisk, n).onDisk,
                                  !.handlers[h].visited = visited]
         IN /\ ~handler.finished
            /\ Unvisited(srv.tracked, handler.visited) # <<>>
            /\ srv' = IF CleanupFinished(tracked, visited)
                      THEN [after EXCEPT !.handlers[h].finished = TRUE,
                                         !.exited = TRUE, !.exitCode = 0,
                                         !.phase = "exited"]
                      ELSE after
    /\ UNCHANGED <<cm, gc, requests, worlds, call, ret, handlerVars>>

\* new FluxReplicateMcpServer(): the TempManager's scheduler is started, the
\* signal handlers are installed, nothing is tracked
SrvInitial ==
    [phase |-> "constructed", attempts |-> 0, client |-> FALSE, healthy |-> FALSE,
     connected |-> FALSE, served |-> 0, exited |-> FALSE, exitCode |-> 0,
     interval |-> TRUE, tracked |-> <<>>, onDisk |-> {}, handlers |-> <<>>,
     ticks |-> 0]

\* the ConfigManager at start-up, over the config files a user may have
CmAtStartup ==
    {[phase |-> "constructed", config |-> DEFAULT_CONFIG, file |-> f, hadFile |-> FALSE,
      sets |-> 0, last |-> NoOp, lastOk |-> Undef] :
        f \in {NoFile, BadFile, FileOf(DEFAULT_CONFIG)}
              \cup {FileOf([replicate_api_key |-> Str(k)]) :
                       k \in {" ", "r8_good", "r8_revoked", "not a key"}}}

LifecycleInit ==
    /\ HandlerIdle
    /\ call = NoCall
    /\ ret = NoReturn
    /\ cm \in CmAtStartup
    /\ gc = GcIdle
    /\ srv = SrvInitial
    /\ requests = <<>>
    /\ worlds = <<>>

LifecycleNext ==
    \/ ConfigInitialize
    \/ SetupCheck
    \/ SetupAttempt
    \/ ClientInit
    \/ HealthCheck
    \/ InitializationFailed
    \/ Start
    \/ ServeRequest
    \/ SchedulerTick
    \/ Signal
    \/ CleanupStep

LifecycleSpec == LifecycleInit /\ [][LifecycleNext]_vars

----------------------------------------------------------------------------
(* Two generate_image requests in flight together (index.ts): each request
   is a record, each step of the handler runs between two awaits.  Beside the
   two requests running together on one disk and one TempManager (runs 1 and
   2, world 1), each request runs on its own from the same initial state (run
   3 is request 1 in world 2, run 4 is request 2 in world 3).  The upstream's
   answers and the downloaded body belong to the request; what the file
   system answers follows from what is on the disk. *)

\* the name of a path: join(dir, base + ext)
FullName(p) == p.dir \o "/" \o p.base \o p.ext

\* the output paths of the two requests: in the directory that exists, in one
\* that does not, and in directories at and under the name of another
\* request's file
RequestPaths ==
    {Path("/out", "a", ".png"), Path("/out", "b", ".jpg"), Path("/new", "c", ".jpg"),
     Path("/new", "e", ".png"), Path("/out/a.png", "d", ".jpg"),
     Path("/out/a.png/x", "f", ".jpg")}

RECURSIVE GenerateImageWithRetry(_, _, _, _, _)
\* generateImageWithRetry from attempt a on, answers[a] being the upstream's
\* answer to that attempt; threw: the promise rejects
GenerateImageWithRetry(model, aspect_ratio, answers, a, le) ==
    IF ~LoopContinues(a, DefaultMaxRetries)
    THEN GenFailure(TRUE, FinalError(le))
    ELSE LET r == GenerateImage(model, aspect_ratio, answers[a])
             failed == NextLastError(le, IF r.threw THEN r.error
                                         ELSE OrMessage(r.error, <<"Generation failed">>))
         IN IF r.threw /\ IsClientError(r.error)
            THEN GenFailure(TRUE, r.error)
            ELSE IF ~r.threw /\ (r.success \/ IsClientError(r.error))
            THEN r
            ELSE GenerateImageWithRetry(model, aspect_ratio, answers, a + 1, failed)

\* dirname of the directories of the model
DirParent(dir) ==
    CASE dir = "/out/a.png" -> "/out"
      [] dir = "/out/a.png/x" -> "/out/a.png"
      [] OTHER -> "/"

RECURSIVE Ancestors(_)
\* the directories above dir, the root left out
Ancestors(dir) ==
    IF DirParent(dir) = "/" THEN {} ELSE {DirParent(dir)} \cup Ancestors(DirParent(dir))

\* ensureDirectoryExists(filePath): the message of the error it rejects with,
\* <<>> when it resolves.  fs.access(dir) resolves for whatever is at dir;
\* otherwise mkdir(dir, {recursive: true}) rejects when a file is in the way
EnsureDirectoryError(w, dir) ==
    IF dir \in w.dirs \cup w.files THEN <<>>
    ELSE IF Ancestors(dir) \cap w.files # {}
    THEN <<"ENOTDIR: not a directory, mkdir">>
    ELSE <<>>

\* the disk after ensureDirectoryExists(filePath)
EnsureDirectory(w, dir) ==
    IF dir \in w.dirs \cup w.files \/ EnsureDirectoryError(w, dir) # <<>>
    THEN w
    ELSE [w EXCEPT !.dirs = @ \cup {dir} \cup Ancestors(dir)]

\* a writeFile that rejects when the directory already holds a file
WriteError_DirectoryBusy(w, path) ==
    IF \E q \in RequestPaths : q.dir = path.dir /\ FullName(q) \in w.files
    THEN <<"EBUSY: resource busy or locked, open">>
    ELSE IF path.dir \notin w.dirs
    THEN <<"ENOENT: no such file or directory, open">>
    ELSE <<>>

\* fs.writeFile(path, buffer): the message of the error it rejects with, <<>>
\* when the file is written
WriteError(w, path) ==
    IF FullName(path) \in w.dirs
    THEN <<"EISDIR: illegal operation on a directory, open">>
    ELSE IF ({path.dir} \cup Ancestors(path.dir)) \cap w.files # {}
    THEN <<"ENOTDIR: not a directory, open">>
    ELSE IF path.dir \notin w.dirs
    THEN <<"ENOENT: no such file or directory, open">>
    ELSE <<>>

\* the disk after fs.writeFile(path, buffer)
WriteFile(w, path) ==
    IF WriteError(w, path) = <<>> THEN [w EXCEPT !.files = @ \cup {FullName(path)}] ELSE w

\* the run of the request, the world it works in, and whether it may step:
\* the runs on their own are followed first
RunIds == {1, 2, 3, 4}
WorldOf(k) == IF k <= 2 THEN 1 ELSE k - 1
Alone(k) == k + 2
Turn(k) == k > 2 \/ (requests[3].pc = "done" /\ requests[4].pc = "done")

\* the destructured arguments of a request with the configured defaults
ReqModel(a) == OrDefault(a.model, Str(DefaultModel)).v
ReqAspectRatio(a) == OrDefault(a.aspect_ratio, Str(DefaultAspectRatio)).v
ReqOutputFormat(a) == OrDefault(a.output_format, Str(DefaultOutputFormat)).v
ReqQuality(a) == OrDefault(a.quality, Num(DefaultQuality)).n

othersVars == <<cm, gc, srv, call, ret, handlerVars>>

\* handleImageGeneration up to its first await
ReqEntry ==
    /\ \E k \in RunIds :
         /\ Turn(k)
         /\ requests[k].pc = "received"
         /\ requests' = [requests EXCEPT ![k] =
                IF EntryError(requests[k].args) # <<>>
                THEN [@ EXCEPT !.thrown = Raise(EntryError(requests[k].args)), !.pc = "catch"]
                ELSE [@ EXCEPT !.pc = "ensureDir"]]
    /\ UNCHANGED <<worlds, othersVars>>

\* await this.ensureDirectoryExists(output_path)
ReqEnsureDirectory ==
    /\ \E k \in RunIds :
         /\ Turn(k)
         /\ requests[k].pc = "ensureDir"
         /\ worlds' = [worlds EXCEPT ![WorldOf(k)] =
                           EnsureDirectory(@, requests[k].args.output_path.dir)]
         /\ requests' = [requests EXCEPT ![k] =
                LET error == EnsureDirectoryError(worlds[WorldOf(k)],
                                                  requests[k].args.output_path.dir)
                IN IF error # <<>>
                   THEN [@ EXCEPT !.thrown = Raise(error), !.pc = "catch"]
                   ELSE [@ EXCEPT !.pc = "generate"]]
    /\ UNCHANGED othersVars

\* await generateImageWithRetry(...), then the checks of its result
ReqGenerate ==
    /\ \E k \in RunIds :
         LET a == requests[k].args
             r == GenerateImageWithRetry(ReqModel(a), ReqAspectRatio(a),
                                         requests[k].answers, 1,
                                         [set |-> FALSE, msg |-> <<>>])
         IN /\ Turn(k)
            /\ requests[k].pc = "generate"
            /\ requests' = [requests EXCEPT ![k] =
                   IF r.threw
                   THEN [@ EXCEPT !.thrown = Raise(r.error), !.pc = "catch"]
                   ELSE IF GenerationError(r) # <<>>
                   THEN [@ EXCEPT !.thrown = Raise(GenerationError(r)), !.pc = "catch"]
                   ELSE [@ EXCEPT !.pc = "download"]]
    /\ UNCHANGED <<worlds, othersVars>>

\* await downloadImage(imageUrl), then needsProcessing
ReqDownload ==
    /\ \E k \in RunIds :
         LET a == requests[k].args IN
         /\ Turn(k)
         /\ requests[k].pc = "download"
         /\ requests' = [requests EXCEPT ![k] =
                IF ~requests[k].body.present
                THEN [@ EXCEPT !.thrown = Raise(<<"Failed to download image: ",
                                                  "fetch failed">>),
                               !.pc = "catch"]
                ELSE [@ EXCEPT !.imageBuffer = requests[k].body,
                               !.pc = IF NeedsProcessing(a.final_width, a.final_height,
                                                         ReqOutputFormat(a),
                                                         a.output_path, ReqQuality(a))
                                      THEN "createTemp" ELSE "directSave"]]
    /\ UNCHANGED <<worlds, othersVars>>

\* await createTempFile('processing', '.tmp'), then the options are validated
ReqCreateTempFile ==
    /\ \E k \in RunIds :
         LET a == requests[k].args
             w == worlds[WorldOf(k)]
             name == FullName(TempFileName(w.tempSeq + 1))
             errors == ValidateProcessingOptions(ReqOutputFormat(a), ReqQuality(a),
                           HasResize(a.final_width, a.final_height),
                           a.final_width, a.final_height)
         IN /\ Turn(k)
            /\ requests[k].pc = "createTemp"
            /\ worlds' = [worlds EXCEPT ![WorldOf(k)] =
                   [EnsureDirectory(w, TempDir) EXCEPT
                        !.tempSeq = @ + 1, !.tempFiles = @ \cup {name}]]
            /\ requests' = [requests EXCEPT ![k] =
                   IF errors # <<>>
                   THEN [@ EXCEPT !.tempPath = name,
                                  !.thrown = Raise(<<"Invalid processing options: ">>
                                                   \o errors),
                                  !.pc = "cleanupErr"]
                   ELSE [@ EXCEPT !.tempPath = name, !.pc = "prepare"]]
    /\ UNCHANGED othersVars

\* processImage up to and with its ensureDirectoryExists
ReqPrepare ==
    /\ \E k \in RunIds :
         LET a == requests[k].args
             error == EnsureDirectoryError(worlds[WorldOf(k)], a.output_path.dir)
             sharp == ProcessImage(requests[k].imageBuffer, a.output_path,
                                   ReqOutputFormat(a), ReqQuality(a),
                                   a.final_width, a.final_height, TRUE, TRUE, TRUE)
             pr == IF sharp.success /\ error # <<>>
                   THEN ProcessingFailure(a.output_path, error) ELSE sharp
         IN /\ Turn(k)
            /\ requests[k].pc = "prepare"
            /\ IF pr.success
               THEN /\ worlds' = [worlds EXCEPT ![WorldOf(k)] =
                                      EnsureDirectory(@, a.output_path.dir)]
                    /\ requests' = [requests EXCEPT ![k].pc = "write"]
               ELSE /\ worlds' = worlds
                    /\ requests' = [requests EXCEPT ![k] =
                           [@ EXCEPT !.processingResult = pr,
                                     !.thrown = Raise(OrMessage(pr.error,
                                                    <<"Image processing failed">>)),
                                     !.pc = "cleanupErr"]]
    /\ UNCHANGED othersVars

\* processImage from toBuffer on: fs.writeFile(outputPath, outputBuffer)
ReqWrite ==
    /\ \E k \in RunIds :
         LET a == requests[k].args
             w == worlds[WorldOf(k)]
             pr == IF WriteError(w, a.output_path) = <<>>
                   THEN ProcessImage(requests[k].imageBuffer, a.output_path,
                                     ReqOutputFormat(a), ReqQuality(a),
                                     a.final_width, a.final_height, TRUE, TRUE, TRUE)
                   ELSE ProcessingFailure(a.output_path, WriteError(w, a.output_path))
         IN /\ Turn(k)
            /\ requests[k].pc = "write"
            /\ worlds' = [worlds EXCEPT ![WorldOf(k)] = WriteFile(w, a.output_path)]
            /\ requests' = [requests EXCEPT ![k] =
                   IF pr.success
                   THEN [@ EXCEPT !.processingResult = pr, !.pc = "cleanupOk"]
                   ELSE [@ EXCEPT !.processingResult = pr,
                                  !.thrown = Raise(OrMessage(pr.error,
                                                 <<"Image processing failed">>)),
                                  !.pc = "cleanupErr"]]
    /\ UNCHANGED othersVars

\* await this.tempManager.cleanupTempFile(tempPath), in the try or in the catch block
ReqCleanup ==
    /\ \E k \in RunIds :
         LET w == worlds[WorldOf(k)]
             c == CleanupTempFile(w.tempFiles, w.files, requests[k].tempPath)
         IN /\ Turn(k)
            /\ requests[k].pc \in {"cleanupOk", "cleanupErr"}
            /\ worlds' = [worlds EXCEPT ![WorldOf(k)] =
                              [@ EXCEPT !.tempFiles = c.tracked, !.files = c.onDisk]]
            /\ requests' = [requests EXCEPT ![k].pc =
                                IF @ = "cleanupOk" THEN "respond" ELSE "catch"]
    /\ UNCHANGED othersVars

\* no processing: await this.ensureDirectoryExists(output_path)
ReqDirectEnsure ==
    /\ \E k \in RunIds :
         /\ Turn(k)
         /\ requests[k].pc = "directSave"
         /\ worlds' = [worlds EXCEPT ![WorldOf(k)] =
                           EnsureDirectory(@, requests[k].args.output_path.dir)]
         /\ requests' = [requests EXCEPT ![k] =
                LET error == EnsureDirectoryError(worlds[WorldOf(k)],
                                                  requests[k].args.output_path.dir)
                IN IF error # <<>>
                   THEN [@ EXCEPT !.thrown = Raise(error), !.pc = "catch"]
                   ELSE [@ EXCEPT !.pc = "directWrite"]]
    /\ UNCHANGED othersVars

\* no processing: await fs.writeFile(output_path, imageBuffer), getImageMetadata
ReqDirectWrite ==
    /\ \E k \in RunIds :
         LET path == requests[k].args.output_path
             w == worlds[WorldOf(k)]
             buffer == requests[k].imageBuffer
         IN /\ Turn(k)
            /\ requests[k].pc = "directWrite"
            /\ worlds' = [worlds EXCEPT ![WorldOf(k)] = WriteFile(w, path)]
            /\ requests' = [requests EXCEPT ![k] =
                   IF WriteError(w, path) # <<>>
                   THEN [@ EXCEPT !.thrown = Raise(WriteError(w, path)), !.pc = "catch"]
                   ELSE IF ~buffer.decodable
                   THEN [@ EXCEPT !.thrown =
                                      Raise(<<"Input buffer contains unsupported image format">>),
                                  !.pc = "catch"]
                   ELSE [@ EXCEPT !.processingResult =
                                      ProcessingSuccess(path,
                                          <<buffer.width, buffer.height>>,
                                          <<buffer.width, buffer.height>>,
                                          DetermineFormatFromPath(path)),
                                  !.pc = "respond"]]
    /\ UNCHANGED othersVars

\* return { content: [...] }
ReqRespond ==
    /\ \E k \in RunIds :
         /\ Turn(k)
         /\ requests[k].pc = "respond"
         /\ requests' = [requests EXCEPT ![k] =
                [@ EXCEPT !.response = SuccessResponse(requests[k].processingResult),
                          !.pc = "done"]]
    /\ UNCHANGED <<worlds, othersVars>>

\* the catch block of the tool-call handler
ReqCatch ==
    /\ \E k \in RunIds :
         /\ Turn(k)
         /\ requests[k].pc = "catch"
         /\ requests' = [requests EXCEPT ![k] =
                [@ EXCEPT !.response = CatchResponse(requests[k].thrown.msg),
                          !.thrown = NoError, !.pc = "done"]]
    /\ UNCHANGED <<worlds, othersVars>>

\* the upstream's answers to the attempts of one request, and the body it downloads
RequestAnswers == {<<Ok1, Ok1, Ok1>>, <<E500, E500, E500>>}
RequestBodies == {Image(100, 100), Garbage, NoBuffer}

NewRequest(path, answers, body) ==
    [args |-> MakeArgs(PromptStr(0, 3, 0), Undef, Undef, path, NumUndef, NumUndef,
                       Undef, NumUndef),
     answers |-> answers, body |-> body, pc |-> "received", imageBuffer |-> NoBuffer,
     tempPath |-> "", processingResult |-> NoProcessing, thrown |-> NoError,
     response |-> NoResponse]

\* the disk and the TempManager before the requests
InitialWorld == [dirs |-> {"/out"}, files |-> {}, tempFiles |-> {}, tempSeq |-> 0]

ConcurrentInit ==
    /\ HandlerIdle
    /\ call = NoCall
    /\ ret = NoReturn
    /\ cm = CmIdle
    /\ gc = GcIdle
    /\ srv = SrvIdle
    /\ \E p1 \in RequestPaths, a1 \in RequestAnswers, a2 \in RequestAnswers,
          b1 \in RequestBodies, b2 \in RequestBodies :
       \E p2 \in RequestPaths \ {p1} :
         requests = <<NewRequest(p1, a1, b1), NewRequest(p2, a2, b2),
                      NewRequest(p1, a1, b1), NewRequest(p2, a2, b2)>>
    /\ worlds = <<InitialWorld, InitialWorld, InitialWorld>>

ConcurrentNext ==
    \/ ReqEntry
    \/ ReqEnsureDirectory
    \/ ReqGenerate
    \/ ReqDownload
    \/ ReqCreateTempFile
    \/ ReqPrepare
    \/ ReqWrite
    \/ ReqCleanup
    \/ ReqDirectEnsure
    \/ ReqDirectWrite
    \/ ReqRespond
    \/ ReqCatch

ConcurrentSpec == ConcurrentInit /\ [][ConcurrentNext]_vars

----------------------------------------------------------------------------
(* The configuration *)

(* C26: after ConfigManager.initialize() with no existing config file,
   hasApiKey() is false; and once a setApiKey(k) with a non-blank k has
   succeeded, hasApiKey() is true and getApiKey() returns the key of the most
   recent successful setApiKey. *)
C26_ApiKeyIsLastSet ==
    /\ (cm.phase = "initialized" /\ ~cm.hadFile /\ cm.sets = 0)
         => ~HasApiKey(cm.config)
    /\ (cm.phase = "initialized" /\ cm.lastOk.t = "str" /\ ~TrimmedEmpty(cm.lastOk.v))
         => /\ HasApiKey(cm.config)
            /\ GetApiKey(cm.config) = cm.lastOk

(* C30: every Config that getConfig() returns, after any sequence of
   getConfig() calls, those that threw included, has an outputQuality
   between 1 and 100. *)
C30_ReturnedQualityInRange ==
    (gc.phase = "module" /\ gc.last.kind = "returned")
        => /\ gc.last.config.outputQuality.t = "num"
           /\ 1 <= gc.last.config.outputQuality.n
           /\ gc.last.config.outputQuality.n <= 100

----------------------------------------------------------------------------
(* Start-up and shutdown *)

\* a signal handler has run
Signalled == srv.handlers # <<>>

\* the configured credential is missing, or the upstream rejects it
CredentialMissingOrRejected ==
    \/ ~HasApiKey(cm.config)
    \/ GetApiKey(cm.config).v \notin AcceptedKeys

(* C23: the server connects its transport only after a credential has been
   configured and the client initialization and the health check have
   succeeded; a process whose credential is missing or rejected exits with a
   non-zero status and has served no generate_image request. *)
C23_ConnectsOnlyWhenHealthy ==
    /\ srv.connected =>
         /\ HasApiKey(cm.config)
         /\ GetApiKey(cm.config).v \in AcceptedKeys
         /\ srv.client
         /\ srv.healthy
    /\ srv.served > 0 => srv.connected
    /\ (srv.exited /\ ~Signalled /\ CredentialMissingOrRejected) =>
         /\ srv.exitCode # 0
         /\ srv.served = 0
         /\ ~srv.connected

\* a server that went through the setup, connected and served a request
C23_Witness ==
    /\ srv.connected
    /\ srv.attempts > 0
    /\ cm.sets > 0
    /\ srv.served > 0

(* C24: on SIGINT or SIGTERM the server stops the periodic cleanup scheduler
   and runs the cleanup of all tracked temporary files to completion before
   the process exits with status 0: an exit with status 0 finds the scheduler
   stopped and a handler whose cleanupAllFiles has visited every tracked
   path. *)
C24_ExitAfterCleanup ==
    (srv.exited /\ srv.exitCode = 0) =>
        /\ ~srv.interval
        /\ \E h \in 1..Len(srv.handlers) :
             /\ srv.handlers[h].finished
             /\ \A i \in 1..Len(srv.tracked) :
                    srv.tracked[i] \in srv.handlers[h].visited

\* an exit with status 0 after two signals, with two paths tracked
C24_Witness ==
    /\ srv.exited
    /\ srv.exitCode = 0
    /\ Len(srv.handlers) = 2
    /\ Len(srv.tracked) >= 2

----------------------------------------------------------------------------
(* Requests in flight together *)

\* request i has ended both together with the other request and on its own
BothEnded(i) == requests[i].pc = "done" /\ requests[Alone(i)].pc = "done"

\* the output path p is the directory of q or a directory above it
Above(p, q) == FullName(p) \in {q.dir} \cup Ancestors(q.dir)

\* the output path of one request lies at or above the directory of the other's
Nested ==
    \/ Above(requests[1].args.output_path, requests[2].args.output_path)
    \/ Above(requests[2].args.output_path, requests[1].args.output_path)

(* C25, as stated: two generate_image requests with different output paths
   do not interact: under every interleaving each ends with the outcome it
   has when it runs alone. *)
C25_Original ==
    \A i \in {1, 2} :
        (requests # <<>> /\ BothEnded(i)) =>
            requests[i].response = requests[Alone(i)].response

(* C25, amended: two generate_image requests with different output paths,
   neither of which is the directory of the other or a directory above it,
   do not interact: under every interleaving each ends with the outcome it
   has when it runs alone. *)
C25_IndependentUnlessNested ==
    \A i \in {1, 2} :
        (requests # <<>> /\ BothEnded(i) /\ ~Nested) =>
            requests[i].response = requests[Alone(i)].response

\* two requests that both wrote their file into a directory one of them made
C25_Witness ==
    /\ requests # <<>>
    /\ BothEnded(1)
    /\ BothEnded(2)
    /\ ~Nested
    /\ requests[1].args.output_path.dir = requests[2].args.output_path.dir
    /\ requests[1].args.output_path.dir \notin InitialWorld.dirs
    /\ requests[1].response.kind = "success"
    /\ requests[2].response.kind = "success"
    /\ requests[1].tempPath # ""
    /\ requests[2].tempPath = ""

====
